---- MODULE Spec2Model ----
(***************************************************************************)
(* A model of sm/certchain.c (GnuPG's gpgsm): the certificate chain        *)
(* walker gpgsm_validate_chain, the issuer resolver find_up and the gates  *)
(* the walker applies to every node and edge of a chain.                   *)
(*                                                                         *)
(* The key database holds a fixed set of certificates (CertTab).  The      *)
(* options, the leaf and the per-call arguments are drawn when a call      *)
(* starts; the answers of the trust agent, of the revocation responder and *)
(* of the user are drawn at the place where the code asks for them.        *)
(***************************************************************************)
EXTENDS Integers, Sequences, FiniteSets, TLC

(***************************************************************************)
(* Bounds of the model.                                                    *)
(***************************************************************************)
\* certchain.c:744 sets maxdepth = 50.  The model walks the same loop with a
\* smaller limit, so that the key database can hold chains of exactly
\* maxdepth and of maxdepth + 1 hops (the family K0 .. K<maxdepth+1>).
maxdepth == 3

(***************************************************************************)
(* Error codes (gpg_err_code values; OK is 0, NOTFOUND is the -1 of the    *)
(* key database).                                                          *)
(***************************************************************************)
OK == "OK"
NOTFOUND == "NOTFOUND"
GPG_ERR_GENERAL == "GENERAL"
GPG_ERR_BAD_CERT == "BAD_CERT"
GPG_ERR_BAD_CERT_CHAIN == "BAD_CERT_CHAIN"
GPG_ERR_BAD_CA_CERT == "BAD_CA_CERT"
GPG_ERR_BAD_SIGNATURE == "BAD_SIGNATURE"
GPG_ERR_MISSING_CERT == "MISSING_CERT"
GPG_ERR_UNSUPPORTED_CERT == "UNSUPPORTED_CERT"
GPG_ERR_CERT_TOO_YOUNG == "CERT_TOO_YOUNG"
GPG_ERR_CERT_EXPIRED == "CERT_EXPIRED"
GPG_ERR_CERT_REVOKED == "CERT_REVOKED"
GPG_ERR_NO_CRL_KNOWN == "NO_CRL_KNOWN"
GPG_ERR_CRL_TOO_OLD == "CRL_TOO_OLD"
GPG_ERR_NO_POLICY_MATCH == "NO_POLICY_MATCH"
GPG_ERR_NOT_TRUSTED == "NOT_TRUSTED"
GPG_ERR_NOT_SUPPORTED == "NOT_SUPPORTED"
GPG_ERR_CANCELED == "CANCELED"
GPG_ERR_NOT_FOUND == "NOT_FOUND"
GPG_ERR_WRONG_KEY_USAGE == "WRONG_KEY_USAGE"
GPG_ERR_INV_CERT_OBJ == "INV_CERT_OBJ"
GPG_ERR_CONFIGURATION == "CONFIGURATION"
GPG_ERR_LINE_TOO_LONG == "LINE_TOO_LONG"
GPG_ERR_INCOMPLETE_LINE == "INCOMPLETE_LINE"
\* any error of a collaborator the code has no case for
GPG_ERR_OTHER == "OTHER"
\* an input/output error of the key database
GPG_ERR_EIO == "EIO"

(***************************************************************************)
(* Certificates.  A certificate is a record of what the ksba accessors     *)
(* used by certchain.c return for it.  "" is a missing string, <<>> a      *)
(* missing list and 0 a missing time (the empty ksba_isotime_t).           *)
(***************************************************************************)
NoCert == "-"

\* The time gnupg_get_isotime returns, and the times certificates carry.
current_time == 5
T_PAST == current_time - 3
T_SOON == current_time - 2
T_FUTURE == current_time + 3
T_LATER == current_time + 4

\* Policy OIDs, byte by byte.
oid_1_2_3 == <<"1", ".", "2", ".", "3">>
oid_1_2_4 == <<"1", ".", "2", ".", "4">>
oid_1_2_8 == <<"1", ".", "2", ".", "8">>
oid_1_2_9 == <<"1", ".", "2", ".", "9">>

BaseCert ==
  [ subject    |-> "",        \* ksba_cert_get_subject
    issuer     |-> "",        \* ksba_cert_get_issuer
    serial     |-> "",        \* serial number
    key        |-> "",        \* the certificate's public key
    sigkey     |-> "",        \* the key its signature was made with
    hashalgo   |-> TRUE,      \* FALSE: signature algorithm unknown
    aki        |-> FALSE,     \* has an authorityKeyIdentifier
    aki_keyid  |-> "",        \* AKI.keyIdentifier
    aki_name   |-> "",        \* AKI.authorityCertIssuer
    aki_serial |-> "",        \* AKI.authorityCertSerialNumber
    ski        |-> "",        \* subjectKeyIdentifier
    is_ca      |-> FALSE,     \* basicConstraints CA flag
    pathlen    |-> -1,        \* basicConstraints pathlen, -1 unlimited
    exts       |-> <<>>,      \* extensions: <<oid, critical>>
    not_before |-> T_PAST,
    not_after  |-> T_LATER,
    badvalidity|-> FALSE,     \* ksba_cert_get_validity fails
    policies   |-> <<>>,      \* certificatePolicies: <<oid, "C" or "N">>,
                              \* <<>> if the certificate has none
    badpolicies|-> FALSE,     \* ksba_cert_get_cert_policies fails
    certsign   |-> TRUE,      \* key usage permits signing certificates
    qualified  |-> "" ]       \* country on the qualified list, "" if not listed

\* The family K0 <- K1 <- ... : K0 is a self-signed root, K<i> is a CA
\* issued by K<i-1>; the leaf K<i> needs i hops to reach the root.
KName(i) == "K" \o ToString(i)
KDN(i) == "CN=K" \o ToString(i)
KKey(i) == "key-K" \o ToString(i)
KIndex == 0 .. (maxdepth + 1)
KNames == { KName(i) : i \in KIndex }

KCert(i) ==
  [BaseCert EXCEPT !.subject = KDN(i),
                   !.issuer = IF i = 0 THEN KDN(0) ELSE KDN(i - 1),
                   !.serial = "1",
                   !.key = KKey(i),
                   !.sigkey = IF i = 0 THEN KKey(0) ELSE KKey(i - 1),
                   !.ski = KKey(i),
                   !.is_ca = TRUE]

\* A certificate issued by K0, the root of the family.
UnderK0 ==
  [BaseCert EXCEPT !.issuer = KDN(0), !.sigkey = KKey(0), !.serial = "2"]

Named ==
  [ \* Two CA certificates share the DN CN=CA (key rollover); CA1, the one
    \* the key database finds first, did not sign the leaf L.
    CA1 |-> [UnderK0 EXCEPT !.subject = "CN=CA", !.key = "key-CA1",
                            !.ski = "key-CA1", !.is_ca = TRUE, !.serial = "3"],
    CA2 |-> [UnderK0 EXCEPT !.subject = "CN=CA", !.key = "key-CA2",
                            !.ski = "key-CA2", !.is_ca = TRUE, !.pathlen = 0,
                            !.serial = "4",
                            !.exts = << <<"2.5.29.19", TRUE>>,
                                        <<"2.5.29.15", TRUE>> >>],
    L   |-> [BaseCert EXCEPT !.subject = "CN=L", !.issuer = "CN=CA",
                             !.sigkey = "key-CA2", !.key = "key-L",
                             !.not_after = T_FUTURE,
                             !.exts = << <<"2.5.29.15", TRUE>>,
                                         <<"2.5.29.17", FALSE>> >>],
    \* An expired leaf and a leaf that is not yet valid.
    LX  |-> [UnderK0 EXCEPT !.subject = "CN=LX", !.key = "key-LX",
                            !.not_after = T_SOON],
    LY  |-> [UnderK0 EXCEPT !.subject = "CN=LY", !.key = "key-LY",
                            !.not_before = T_FUTURE],
    \* A leaf with a critical nameConstraints extension.
    LU  |-> [UnderK0 EXCEPT !.subject = "CN=LU", !.key = "key-LU",
                            !.exts = << <<"2.5.29.19", TRUE>>,
                                        <<"2.5.29.30", TRUE>> >>],
    \* Leaves with certificatePolicies.
    LP  |-> [UnderK0 EXCEPT !.subject = "CN=LP", !.key = "key-LP",
                            !.policies = << <<oid_1_2_9, "C">> >>,
                            !.exts = << <<"2.5.29.32", TRUE>> >>],
    LPE |-> [UnderK0 EXCEPT !.subject = "CN=LPE", !.key = "key-LPE",
                            !.badpolicies = TRUE],
    \* N is issued by K0 but is not a CA; LN is issued by N.
    N   |-> [UnderK0 EXCEPT !.subject = "CN=N", !.key = "key-N"],
    LN  |-> [BaseCert EXCEPT !.subject = "CN=LN", !.issuer = "CN=N",
                             !.sigkey = "key-N", !.key = "key-LN"],
    \* P0 is a CA with pathlen 0, PS a CA below it, PL a leaf below PS.
    P0  |-> [UnderK0 EXCEPT !.subject = "CN=P0", !.key = "key-P0",
                            !.is_ca = TRUE, !.pathlen = 0],
    PS  |-> [BaseCert EXCEPT !.subject = "CN=PS", !.issuer = "CN=P0",
                             !.sigkey = "key-P0", !.key = "key-PS",
                             !.is_ca = TRUE],
    PL  |-> [BaseCert EXCEPT !.subject = "CN=PL", !.issuer = "CN=PS",
                             !.sigkey = "key-PS", !.key = "key-PL"],
    \* The RegTP scheme: no certificate carries basicConstraints; the
    \* root Q is on the qualified list with country "de".
    Q   |-> [BaseCert EXCEPT !.subject = "CN=Q", !.issuer = "CN=Q",
                             !.sigkey = "key-Q", !.key = "key-Q",
                             !.qualified = "de"],
    QC  |-> [BaseCert EXCEPT !.subject = "CN=QC", !.issuer = "CN=Q",
                             !.sigkey = "key-Q", !.key = "key-QC"],
    QL  |-> [BaseCert EXCEPT !.subject = "CN=QL", !.issuer = "CN=QC",
                             !.sigkey = "key-QC", !.key = "key-QL"],
    QLL |-> [BaseCert EXCEPT !.subject = "CN=QLL", !.issuer = "CN=QL",
                             !.sigkey = "key-QL", !.key = "key-QLL"],
    \* SB is self-issued with a self-signature that does not verify.
    SB  |-> [BaseCert EXCEPT !.subject = "CN=SB", !.issuer = "CN=SB",
                             !.sigkey = "key-none", !.key = "key-SB",
                             !.is_ca = TRUE],
    LSB |-> [BaseCert EXCEPT !.subject = "CN=LSB", !.issuer = "CN=SB",
                             !.sigkey = "key-SB", !.key = "key-LSB"],
    \* RX is a self-signed root that is not marked as a CA; it is on the
    \* qualified list of another country.
    RX  |-> [BaseCert EXCEPT !.subject = "CN=RX", !.issuer = "CN=RX",
                             !.sigkey = "key-RX", !.key = "key-RX",
                             !.qualified = "fr"],
    LRX |-> [BaseCert EXCEPT !.subject = "CN=LRX", !.issuer = "CN=RX",
                             !.sigkey = "key-RX", !.key = "key-LRX"],
    \* CU is a CA whose key usage does not permit signing certificates.
    CU  |-> [UnderK0 EXCEPT !.subject = "CN=CU", !.key = "key-CU",
                            !.is_ca = TRUE, !.certsign = FALSE],
    LCU |-> [BaseCert EXCEPT !.subject = "CN=LCU", !.issuer = "CN=CU",
                             !.sigkey = "key-CU", !.key = "key-LCU"],
    \* CX is a CA with a critical nameConstraints extension, LCX a leaf
    \* issued by it.
    CX  |-> [UnderK0 EXCEPT !.subject = "CN=CX", !.key = "key-CX",
                            !.is_ca = TRUE,
                            !.exts = << <<"2.5.29.30", TRUE>> >>],
    LCX |-> [BaseCert EXCEPT !.subject = "CN=LCX", !.issuer = "CN=CX",
                             !.sigkey = "key-CX", !.key = "key-LCX"],
    \* LM names an issuer no store holds; LNI has no issuer at all; LG is
    \* signed with an algorithm the signature check does not know.
    LM  |-> [BaseCert EXCEPT !.subject = "CN=LM", !.issuer = "CN=nobody",
                             !.sigkey = "key-nobody", !.key = "key-LM"],
    LNI |-> [BaseCert EXCEPT !.subject = "CN=LNI", !.key = "key-LNI"],
    LG  |-> [UnderK0 EXCEPT !.subject = "CN=LG", !.key = "key-LG",
                            !.hashalgo = FALSE],
    \* D is a CA issued by K0 that only the external directory holds; LD
    \* is a leaf issued by D and names it by authorityKeyIdentifier.
    D   |-> [UnderK0 EXCEPT !.subject = "CN=D", !.key = "key-D",
                            !.ski = "key-D", !.is_ca = TRUE, !.serial = "7"],
    LD  |-> [BaseCert EXCEPT !.subject = "CN=LD", !.issuer = "CN=D",
                             !.sigkey = "key-D", !.key = "key-LD",
                             !.aki = TRUE, !.aki_keyid = "key-D"],
    \* LA names CA2 by the issuer and serial of its authorityKeyIdentifier.
    LA  |-> [BaseCert EXCEPT !.subject = "CN=LA", !.issuer = "CN=CA",
                             !.sigkey = "key-CA2", !.key = "key-LA",
                             !.aki = TRUE, !.aki_name = KDN(0),
                             !.aki_serial = "4"],
    \* CE is a CA that expired before its leaf LCE does.
    CE  |-> [UnderK0 EXCEPT !.subject = "CN=CE", !.key = "key-CE",
                            !.is_ca = TRUE, !.not_after = T_SOON],
    LCE |-> [BaseCert EXCEPT !.subject = "CN=LCE", !.issuer = "CN=CE",
                             !.sigkey = "key-CE", !.key = "key-LCE",
                             !.not_after = T_FUTURE],
    \* LB has a validity that cannot be read, LZ carries no times at all.
    LB  |-> [UnderK0 EXCEPT !.subject = "CN=LB", !.key = "key-LB",
                            !.badvalidity = TRUE, !.not_after = T_PAST],
    LZ  |-> [UnderK0 EXCEPT !.subject = "CN=LZ", !.key = "key-LZ",
                            !.not_before = 0, !.not_after = 0],
    \* CP is a CA with a critical policy the policy file does not list; its
    \* leaf LCP has an unlisted critical policy and a listed one; LPN has
    \* an unlisted one that is not critical.
    CP  |-> [UnderK0 EXCEPT !.subject = "CN=CP", !.key = "key-CP",
                            !.is_ca = TRUE,
                            !.policies = << <<oid_1_2_9, "C">> >>,
                            !.exts = << <<"2.5.29.32", TRUE>> >>],
    LCP |-> [BaseCert EXCEPT !.subject = "CN=LCP", !.issuer = "CN=CP",
                             !.sigkey = "key-CP", !.key = "key-LCP",
                             !.policies = << <<oid_1_2_8, "C">>,
                                             <<oid_1_2_4, "N">> >>],
    LPN |-> [UnderK0 EXCEPT !.subject = "CN=LPN", !.key = "key-LPN",
                            !.policies = << <<oid_1_2_9, "N">> >>],
    \* LF is issued by K0 but signed with a key no certificate holds.
    LF  |-> [UnderK0 EXCEPT !.subject = "CN=LF", !.key = "key-LF",
                            !.sigkey = "key-none"],
    \* LS is issued by CN=CA; the issuer and serial number of its
    \* authorityKeyIdentifier are its own.  No store holds it at first.
    LS  |-> [BaseCert EXCEPT !.subject = "CN=LS", !.issuer = "CN=CA",
                             !.sigkey = "key-CA2", !.key = "key-LS",
                             !.serial = "9", !.aki = TRUE,
                             !.aki_name = "CN=CA", !.aki_serial = "9"],
    \* LW names CA2 by the issuer and serial of its authorityKeyIdentifier,
    \* as LA does, but was signed with a key no certificate holds.
    LW  |-> [BaseCert EXCEPT !.subject = "CN=LW", !.issuer = "CN=CA",
                             !.sigkey = "key-none", !.key = "key-LW",
                             !.aki = TRUE, !.aki_name = KDN(0),
                             !.aki_serial = "4"],
    \* CYA and CYB are CAs that issued each other; LCY is a leaf of CYA.
    CYA |-> [BaseCert EXCEPT !.subject = "CN=CYA", !.issuer = "CN=CYB",
                             !.sigkey = "key-CYB", !.key = "key-CYA",
                             !.is_ca = TRUE],
    CYB |-> [BaseCert EXCEPT !.subject = "CN=CYB", !.issuer = "CN=CYA",
                             !.sigkey = "key-CYA", !.key = "key-CYB",
                             !.is_ca = TRUE],
    LCY |-> [BaseCert EXCEPT !.subject = "CN=LCY", !.issuer = "CN=CYA",
                             !.sigkey = "key-CYA", !.key = "key-LCY"] ]

NamedNames == DOMAIN Named
CertNames == NamedNames \cup KNames

KIndexOf(c) == CHOOSE i \in KIndex : KName(i) = c

CertTab == [c \in CertNames |->
              IF c \in NamedNames THEN Named[c] ELSE KCert(KIndexOf(c))]

Cert(c) == CertTab[c]

\* The main store of the key database, in the order a search visits it.
KeyDB ==
  << "L", "CA1", "CA2", "LX", "LY", "LU", "LP", "LPE", "N", "LN", "P0", "PS",
     "PL", "Q", "QC", "QL", "QLL", "SB", "LSB", "RX", "LRX", "CU", "LCU",
     "CX", "LCX", "LM", "LNI", "LG", "LD", "LA", "CE", "LCE", "LB", "LZ", "CP",
     "LCP", "LPN", "LF", "LW", "CYA", "CYB", "LCY" >>
  \o [i \in 1 .. (maxdepth + 2) |-> KName(i - 1)]

\* The certificates the external directory (dirmngr) can deliver.
Directory == << "D" >>

VARIABLES
  \* process-wide state
  opt,                \* the options (opt.* of gpgsm.h)
  ephem,              \* the ephemeral store of the key database
  keydb_flags,        \* certificates flagged VALIDITY_REVOKED in the key database
  marktrusted_info,   \* roots the user was already asked about
  no_more_questions,  \* the static latch of gpgsm_validate_chain
  \* the arguments of the call
  cert, listmode, flags, use_ocsp,
  \* the locals of gpgsm_validate_chain
  pc, rc, depth, subject_cert, issuer_cert, kh, any_expired, any_revoked,
  any_no_crl, any_crl_too_old, any_no_policy_match, is_qualified, exptime,
  r_exptime, is_root, istrusted_rc, rootca_flags, chainlen,
  \* user data attached to the certificate objects of the call
  userdata,
  \* observations of what the call did
  chain,              \* the certificates that were the subject, leaf first
  verified,           \* <<subject, issuer>>: the signature check returned 0
  gate_run,           \* <<subject, issuer>>: is_cert_still_valid was called
  isvalid_calls,      \* <<subject, issuer>>: the responder was asked
  isvalid_rc,         \* what the responder answered last
  marktrusted_rc,     \* what gpgsm_agent_marktrusted returned in this call
  walk_finished,      \* the loop ended at a root (break), not by goto leave
  calls,              \* how often each collaborator was called
  \* the process as a sequence of calls
  ncalls,             \* calls of gpgsm_validate_chain started so far
  oracle,             \* what the collaborators answered, if they keep to it
  prev,               \* the arguments and the result of the call before
  \* resources
  refs,               \* the references and handles the call holds
  keydb_broken,       \* keydb_get_cert may fail in this process
  \* get_regtp_ca_info called on its own
  regtp               \* what the call returned and the user data it set

procvars == <<opt, ephem, keydb_flags, marktrusted_info, no_more_questions>>
argvars == <<cert, listmode, flags, use_ocsp>>
flagvars == <<any_expired, any_revoked, any_no_crl, any_crl_too_old,
              any_no_policy_match>>
localvars == <<pc, rc, depth, subject_cert, issuer_cert, kh, is_qualified,
               exptime, r_exptime, is_root, istrusted_rc, rootca_flags,
               chainlen, userdata>>
obsvars == <<chain, verified, gate_run, isvalid_calls, isvalid_rc,
             marktrusted_rc, walk_finished, calls>>
sessionvars == <<ncalls, oracle, prev>>
resvars == <<refs, keydb_broken, regtp>>
vars ==
  <<procvars, argvars, flagvars, localvars, obsvars, sessionvars, resvars>>

(***************************************************************************)
(* The key database.  A handle is a cursor (pos: the blob found last, 0    *)
(* after a reset) with an ephemeral flag; the blobs of the ephemeral store *)
(* follow those of the main store and are visible in ephemeral mode only.  *)
(* A search state st carries the handle, the ephemeral store and the       *)
(* result of the last operation: [rc, pos, eph, ephem].                    *)
(***************************************************************************)
Min(S) == CHOOSE x \in S : \A y \in S : x <= y

Blobs(st) == KeyDB \o st.ephem

keydb_new(store) ==
  [rc |-> OK, pos |-> 0, eph |-> FALSE, ephem |-> store, fault |-> 0]

keydb_search_reset(st) == [st EXCEPT !.pos = 0]

keydb_set_ephemeral(st, yes) == [st EXCEPT !.eph = yes]

\* The blobs after the cursor that the handle can see.
Ahead(st) ==
  { i \in (st.pos + 1) .. Len(Blobs(st)) : i <= Len(KeyDB) \/ st.eph }

Found(st, hits) ==
  IF hits = {}
    THEN [st EXCEPT !.rc = NOTFOUND, !.pos = Len(Blobs(st)) + 1]
    ELSE [st EXCEPT !.rc = OK, !.pos = Min(hits)]

\* A search on a handle whose fault count has come to 1 fails with an
\* input/output error; the searches before and after it work.
Search(st, hits) ==
  IF st.fault = 1
    THEN [st EXCEPT !.rc = GPG_ERR_EIO, !.fault = 0]
    ELSE Found([st EXCEPT !.fault = IF @ > 1 THEN @ - 1 ELSE 0], hits)

keydb_search_subject(st, name) ==
  Search(st, { i \in Ahead(st) : Cert(Blobs(st)[i]).subject = name })

keydb_search_issuer_sn(st, name, sn) ==
  Search(st, { i \in Ahead(st) : /\ Cert(Blobs(st)[i]).issuer = name
                                /\ Cert(Blobs(st)[i]).serial = sn })

keydb_get_cert(st) == Blobs(st)[st.pos]

\* keydb_store_cert (cert, 1): a certificate the database already holds is
\* not stored again.
keydb_store_cert(store, c) ==
  IF \E i \in 1 .. Len(KeyDB \o store) : (KeyDB \o store)[i] = c
    THEN store
    ELSE Append(store, c)

(***************************************************************************)
(* find_up and its helpers.                                                *)
(***************************************************************************)
\* certchain.c:369: the loop gives -1 for whatever ended it without a match.
find_up_search_by_keyid_rc(st) ==
  IF st.rc # OK THEN [st EXCEPT !.rc = NOTFOUND] ELSE st

find_up_search_by_keyid_from(st0, issuer, keyid) ==
  find_up_search_by_keyid_rc(
    Search(st0, { i \in Ahead(st0) :
                    /\ Cert(Blobs(st0)[i]).subject = issuer
                    /\ Cert(Blobs(st0)[i]).ski # ""
                    /\ Cert(Blobs(st0)[i]).ski = keyid }))

find_up_search_by_keyid(st, issuer, keyid) ==
  find_up_search_by_keyid_from(keydb_search_reset(st), issuer, keyid)

\* gpgsm_dirmngr_lookup: the directory delivers its certificates with the
\* subject asked for, one by one, to find_up_store_certs_cb.
DirHits(issuer) ==
  SelectSeq(Directory, LAMBDA c : Cert(c).subject = issuer)

RECURSIVE StoreAll(_, _)
StoreAll(store, cs) ==
  IF cs = <<>> THEN store
  ELSE StoreAll(keydb_store_cert(store, Head(cs)), Tail(cs))

\* certchain.c:426-439: st1 is the handle with the certificates stored.
find_up_external_search(st1, issuer, keyid) ==
  keydb_set_ephemeral(
    IF keyid # ""
      THEN find_up_search_by_keyid(keydb_set_ephemeral(st1, TRUE), issuer,
                                   keyid)
      ELSE keydb_search_subject(
             keydb_search_reset(keydb_set_ephemeral(st1, TRUE)), issuer),
    st1.eph)

\* certchain.c:413-424: hits are the certificates the directory delivered.
find_up_external_store(st, hits, issuer, keyid) ==
  IF Len(hits) = 0
    THEN [st EXCEPT !.rc = NOTFOUND]
    ELSE find_up_external_search(
           [st EXCEPT !.ephem = StoreAll(st.ephem, hits)], issuer, keyid)

find_up_external(st, issuer, keyid) ==
  find_up_external_store(st, DirHits(issuer), issuer, keyid)

ResetIfError(st) == IF st.rc # OK THEN keydb_search_reset(st) ELSE st

\* certchain.c:470-480: st1 is the handle after the search in the main
\* store; the search is repeated with the ephemeral store included.
find_up_issuer_sn_ephemeral(st1, s, authidno, find_next) ==
  IF st1.rc = NOTFOUND /\ ~find_next
    THEN keydb_set_ephemeral(
           IF ~st1.eph
             THEN ResetIfError(
                    keydb_search_issuer_sn(keydb_set_ephemeral(st1, TRUE),
                                           s, authidno))
             ELSE keydb_set_ephemeral(st1, TRUE),
           st1.eph)
    ELSE st1

\* certchain.c:463-480, the search by AKI issuer and serial number.
find_up_issuer_sn(st, s, authidno, find_next) ==
  find_up_issuer_sn_ephemeral(
    ResetIfError(keydb_search_issuer_sn(st, s, authidno)),
    s, authidno, find_next)

\* certchain.c:490-497: st1 is the handle after the search in the main
\* store; the search is repeated with the ephemeral store included.
find_up_keyid_ephemeral(st1, issuer, keyid) ==
  IF st1.rc # OK
    THEN keydb_set_ephemeral(
           IF ~st1.eph
             THEN find_up_search_by_keyid(keydb_set_ephemeral(st1, TRUE),
                                          issuer, keyid)
             ELSE keydb_set_ephemeral(st1, TRUE),
           st1.eph)
    ELSE st1

\* certchain.c:498-499
NotFoundIfError(st) == IF st.rc # OK THEN [st EXCEPT !.rc = NOTFOUND] ELSE st

\* certchain.c:484-500, the search by AKI key identifier.
find_up_keyid(st, issuer, keyid) ==
  NotFoundIfError(
    find_up_keyid_ephemeral(find_up_search_by_keyid(st, issuer, keyid),
                            issuer, keyid))

\* certchain.c:460-480
find_up_aki_issuer_sn(st0, s, authidno, find_next) ==
  IF s # "" /\ authidno # ""
    THEN find_up_issuer_sn(st0, s, authidno, find_next)
    ELSE st0

\* certchain.c:484-500
find_up_aki_keyid(st1, issuer, keyid, find_next) ==
  IF st1.rc = NOTFOUND /\ keyid # "" /\ ~find_next
    THEN find_up_keyid(st1, issuer, keyid)
    ELSE st1

\* certchain.c:503-504
find_up_aki_external(st2, issuer, keyid, find_next) ==
  IF st2.rc = NOTFOUND /\ opt.auto_issuer_key_retrieve /\ ~find_next
    THEN find_up_external(st2, issuer, keyid)
    ELSE st2

\* certchain.c:458-533, the strategies that use the authorityKeyIdentifier.
find_up_aki(st, c, issuer, find_next) ==
  find_up_aki_external(
    find_up_aki_keyid(
      find_up_aki_issuer_sn([st EXCEPT !.rc = NOTFOUND], Cert(c).aki_name,
                            Cert(c).aki_serial, find_next),
      issuer, Cert(c).aki_keyid, find_next),
    issuer, Cert(c).aki_keyid, find_next)

\* certchain.c:535-536: the search by the subject name.
find_up_subject(st1, issuer) ==
  IF st1.rc # OK THEN keydb_search_subject(st1, issuer) ELSE st1

\* The same search leaving the handle in ephemeral mode.
find_up_subject_ephemeral_no_restore(st2, issuer, find_next) ==
  IF st2.rc = NOTFOUND /\ ~find_next
    THEN IF ~st2.eph
           THEN keydb_search_subject(
                  keydb_search_reset(keydb_set_ephemeral(st2, TRUE)),
                  issuer)
           ELSE keydb_set_ephemeral(st2, TRUE)
    ELSE st2

\* certchain.c:537-547: the same with the ephemeral store included.
find_up_subject_ephemeral(st2, issuer, find_next) ==
  IF st2.rc = NOTFOUND /\ ~find_next
    THEN keydb_set_ephemeral(
           IF ~st2.eph
             THEN keydb_search_subject(
                    keydb_search_reset(keydb_set_ephemeral(st2, TRUE)),
                    issuer)
             ELSE keydb_set_ephemeral(st2, TRUE),
           st2.eph)
    ELSE st2

\* certchain.c:550-551
find_up_subject_external(st3, issuer, find_next) ==
  IF st3.rc = NOTFOUND /\ opt.auto_issuer_key_retrieve /\ ~find_next
    THEN find_up_external(st3, issuer, "")
    ELSE st3

find_up(st, c, issuer, find_next) ==
  find_up_subject_external(
    find_up_subject_ephemeral(
      find_up_subject(
        IF Cert(c).aki THEN find_up_aki(st, c, issuer, find_next)
                       ELSE [st EXCEPT !.rc = NOTFOUND],
        issuer),
      issuer, find_next),
    issuer, find_next)

(***************************************************************************)
(* Collaborators that are functions of the certificate.                    *)
(***************************************************************************)
\* gpgsm_check_cert_sig (issuer, c): 0 iff c was signed with the issuer's key.
gpgsm_check_cert_sig(issuer, c) ==
  IF ~Cert(c).hashalgo THEN GPG_ERR_GENERAL
  ELSE IF Cert(c).sigkey = Cert(issuer).key THEN OK
  ELSE GPG_ERR_BAD_SIGNATURE

\* gpgsm_cert_use_cert_p: the key usage permits signing certificates.
gpgsm_cert_use_cert_p(c) ==
  IF Cert(c).certsign THEN OK ELSE GPG_ERR_WRONG_KEY_USAGE

\* gpgsm_is_in_qualified_list: the country of a listed root.
gpgsm_is_in_qualified_list(c) ==
  IF Cert(c).qualified = "" THEN [rc |-> GPG_ERR_NOT_FOUND, country |-> ""]
  ELSE IF Cert(c).qualified = "?" THEN [rc |-> GPG_ERR_OTHER, country |-> ""]
  ELSE [rc |-> OK, country |-> Cert(c).qualified]

\* What the trust agent, the user and the revocation responder may answer.
IstrustedAnswers ==
  { [rc |-> OK, relax |-> FALSE], [rc |-> OK, relax |-> TRUE],
    [rc |-> GPG_ERR_NOT_TRUSTED, relax |-> FALSE],
    [rc |-> GPG_ERR_OTHER, relax |-> FALSE] }

MarktrustedAnswers ==
  { OK, GPG_ERR_NOT_SUPPORTED, GPG_ERR_CANCELED, GPG_ERR_OTHER }

IsvalidAnswers ==
  { OK, GPG_ERR_CERT_REVOKED, GPG_ERR_NO_CRL_KNOWN, GPG_ERR_CRL_TOO_OLD,
    GPG_ERR_OTHER }

(***************************************************************************)
(* The gates.                                                              *)
(***************************************************************************)
\* A critical-extension gate that lets nameConstraints pass.
unknown_criticals_name_constraints(c) ==
  LET exts == Cert(c).exts
  IN  IF \E idx \in 1 .. Len(exts) :
           /\ exts[idx][2]
           /\ exts[idx][1] \notin { "2.5.29.15", "2.5.29.19", "2.5.29.30",
                                    "2.5.29.32", "2.5.29.37" }
        THEN GPG_ERR_UNSUPPORTED_CERT
        ELSE OK

known == { "2.5.29.15", "2.5.29.19", "2.5.29.32", "2.5.29.37" }

unknown_criticals(c) ==
  LET exts == Cert(c).exts
  IN  IF \E idx \in 1 .. Len(exts) : exts[idx][2] /\ exts[idx][1] \notin known
        THEN GPG_ERR_UNSUPPORTED_CERT
        ELSE OK

gpgsm_is_root_cert(c) ==
  /\ Cert(c).issuer # ""
  /\ Cert(c).subject # ""
  /\ Cert(c).issuer = Cert(c).subject

\* The byte 0 of a file, and the size of the line buffer (certchain.c:264).
NUL == "NUL"
DIM_line == 256

\* A line of n digits without its newline.
Ones(n) == [i \in 1 .. n |-> "1"]

\* The policy files a configuration can name, line by line: text is the
\* line as it stands in the file, oid the OID it allows (<<>> if it allows
\* none), bad the error of a line that cannot be read.  "" is no file
\* configured; a name without an entry here cannot be opened.
PolicyFileText ==
  [ policies |->
      << [text |-> <<"#", " ", "o", "k", "\n">>, oid |-> <<>>, bad |-> OK],
         [text |-> <<" ", "\t", "\n">>, oid |-> <<>>, bad |-> OK],
         [text |-> oid_1_2_3 \o <<"\n">>, oid |-> oid_1_2_3, bad |-> OK],
         [text |-> <<" ">> \o oid_1_2_4 \o <<" ", "x", "\n">>,
          oid |-> oid_1_2_4, bad |-> OK] >>,
    \* OIDs that are a proper part of 1.2.9 or have it as a part.
    parts |->
      << [text |-> <<"1", ".", "2", "\n">>, oid |-> <<"1", ".", "2">>,
          bad |-> OK],
         [text |-> <<"2", ".", "9", ":", "\n">>, oid |-> <<"2", ".", "9">>,
          bad |-> OK],
         [text |-> oid_1_2_9 \o <<".", "1", "\n">>,
          oid |-> oid_1_2_9 \o <<".", "1">>, bad |-> OK],
         [text |-> <<"N", "\n">>, oid |-> <<"N">>, bad |-> OK] >>,
    empty |-> << >>,
    \* The longest line the buffer takes, and a line one longer.
    fits |->
      << [text |-> Ones(DIM_line - 3) \o <<"\n">>,
          oid |-> Ones(DIM_line - 3), bad |-> OK],
         [text |-> oid_1_2_9 \o <<"\n">>, oid |-> oid_1_2_9, bad |-> OK] >>,
    toolong |->
      << [text |-> Ones(DIM_line - 2) \o <<"\n">>, oid |-> <<>>,
          bad |-> GPG_ERR_LINE_TOO_LONG],
         [text |-> oid_1_2_9 \o <<"\n">>, oid |-> oid_1_2_9, bad |-> OK] >>,
    \* Lines of DIM(line)-1 and of DIM(line) characters before the newline.
    line255 |->
      << [text |-> Ones(DIM_line - 1) \o <<"\n">>, oid |-> <<>>,
          bad |-> GPG_ERR_LINE_TOO_LONG],
         [text |-> oid_1_2_9 \o <<"\n">>, oid |-> oid_1_2_9, bad |-> OK] >>,
    line256 |->
      << [text |-> Ones(DIM_line) \o <<"\n">>, oid |-> <<>>,
          bad |-> GPG_ERR_LINE_TOO_LONG],
         [text |-> oid_1_2_9 \o <<"\n">>, oid |-> oid_1_2_9, bad |-> OK] >>,
    \* A last line without a newline, a line that starts with a colon and
    \* a line that starts with the byte 0.
    unterminated |->
      << [text |-> oid_1_2_3 \o <<"\n">>, oid |-> oid_1_2_3, bad |-> OK],
         [text |-> oid_1_2_9, oid |-> <<>>,
          bad |-> GPG_ERR_LINE_TOO_LONG] >>,
    colon |->
      << [text |-> <<" ", ":">> \o oid_1_2_9 \o <<"\n">>, oid |-> <<>>,
          bad |-> GPG_ERR_CONFIGURATION],
         [text |-> oid_1_2_9 \o <<"\n">>, oid |-> oid_1_2_9, bad |-> OK] >>,
    nul |->
      << [text |-> <<NUL>> \o oid_1_2_9 \o <<"\n">>, oid |-> <<>>,
          bad |-> GPG_ERR_INCOMPLETE_LINE] >>,
    \* A line that cannot be read after a line that allows 1.2.9.
    late |->
      << [text |-> oid_1_2_9 \o <<":", "x", "\n">>, oid |-> oid_1_2_9,
          bad |-> OK],
         [text |-> <<":", "\n">>, oid |-> <<>>,
          bad |-> GPG_ERR_CONFIGURATION] >> ]

RECURSIVE FileBytes(_)
FileBytes(lines) ==
  IF lines = <<>> THEN <<>> ELSE Head(lines).text \o FileBytes(Tail(lines))

\* The bytes of the policy files.
PolicyFiles == [n \in DOMAIN PolicyFileText |-> FileBytes(PolicyFileText[n])]

\* ksba_cert_get_cert_policies: one line "oid:flag" per policy.
RECURSIVE policy_listing(_)
policy_listing(entries) ==
  IF entries = <<>> THEN <<>>
  ELSE Head(entries)[1] \o <<":", Head(entries)[2], "\n">>
         \o policy_listing(Tail(entries))

\* strlen: the bytes before the first byte 0.
strlen(str) ==
  LET z == { i \in 1 .. Len(str) : str[i] = NUL }
  IN  IF z = {} THEN Len(str) ELSE Min(z) - 1

\* certchain.c:270, fgets (line, DIM(line)-1, fp) at the byte pos of f: the
\* bytes up to and with the next newline, DIM(line)-2 of them at most.
fgets(f, pos) ==
  LET room == Min({DIM_line - 2, Len(f) - pos + 1})
      nl == { n \in 1 .. room : f[pos + n - 1] = "\n" }
  IN  SubSeq(f, pos, pos + (IF nl = {} THEN room ELSE Min(nl)) - 1)

spacep(ch) == ch \in {" ", "\t"}

\* certchain.c:311-312: the index of the first byte that is no space.
skip_spaces(line) ==
  Min({ i \in 1 .. (Len(line) + 1) : i > Len(line) \/ ~spacep(line[i]) })

\* certchain.c:313-320: the token from a to the next space, colon or newline.
policy_token(line, a) ==
  SubSeq(line, a,
         Min({ i \in a .. Len(line) : line[i] \in {" ", ":", "\n"} }) - 1)

\* A search that takes the OID wherever it occurs in the listing.
listing_match_anywhere(policies, allowed) ==
  \E i \in 1 .. (Len(policies) - Len(allowed) + 1) :
     SubSeq(policies, i, i + Len(allowed) - 1) = allowed

\* certchain.c:322-332: allowed occurs in the listing at the begin of a line
\* and is followed by a colon.
listing_match(policies, allowed) ==
  \E i \in 1 .. (Len(policies) - Len(allowed) + 1) :
     /\ SubSeq(policies, i, i + Len(allowed) - 1) = allowed
     /\ (i = 1 \/ policies[i - 1] = "\n")
     /\ i + Len(allowed) <= Len(policies)
     /\ policies[i + Len(allowed)] = ":"

RECURSIVE policy_lines(_, _, _, _)

\* certchain.c:304-332, a line that ends with a newline; a is its first
\* byte that is no space, next the byte of the file the following line
\* starts at.
policy_line_parse(f, next, line, a, policies, any_critical) ==
  IF line[a] \in {"\n", "#"}
    THEN policy_lines(f, next, policies, any_critical)
  ELSE IF line[a] = ":" THEN GPG_ERR_CONFIGURATION
  ELSE IF listing_match(policies, policy_token(line, a)) THEN OK
  ELSE policy_lines(f, next, policies, any_critical)

\* certchain.c:293-302, line being what strlen sees of the bytes read.
policy_line(f, next, line, policies, any_critical) ==
  IF line = <<>> THEN GPG_ERR_INCOMPLETE_LINE
  ELSE IF line[Len(line)] # "\n" THEN GPG_ERR_LINE_TOO_LONG
  ELSE policy_line_parse(f, next, line, skip_spaces(line), policies,
                         any_critical)

policy_line_read(f, pos, raw, policies, any_critical) ==
  policy_line(f, pos + Len(raw), SubSeq(raw, 1, strlen(raw)), policies,
              any_critical)

\* certchain.c:261-333, the loop over the lines of the policy file f from
\* its byte pos on.
policy_lines(f, pos, policies, any_critical) ==
  IF pos > Len(f)
    THEN IF any_critical THEN GPG_ERR_NO_POLICY_MATCH ELSE OK
    ELSE policy_line_read(f, pos, fgets(f, pos), policies, any_critical)

\* certchain.c:228
policy_any_critical(policies) ==
  \E i \in 1 .. (Len(policies) - 1) :
     policies[i] = ":" /\ policies[i + 1] = "C"

check_cert_policy_of(policies, any_critical) ==
  IF opt.policy_file = ""
    THEN IF any_critical THEN GPG_ERR_NO_POLICY_MATCH ELSE OK
  ELSE IF opt.policy_file \notin DOMAIN PolicyFiles
    THEN IF any_critical THEN GPG_ERR_NO_POLICY_MATCH ELSE OK
  ELSE policy_lines(PolicyFiles[opt.policy_file], 1, policies, any_critical)

check_cert_policy_listing(policies) ==
  check_cert_policy_of(policies, policy_any_critical(policies))

check_cert_policy(c) ==
  IF Cert(c).badpolicies THEN GPG_ERR_INV_CERT_OBJ
  ELSE IF Cert(c).policies = <<>> THEN OK
  ELSE check_cert_policy_listing(policy_listing(Cert(c).policies))

\* certchain.c:598-612: st is the handle after find_up.
walk_cert_chain_next(st) ==
  IF st.rc # OK
    THEN [rc |-> GPG_ERR_MISSING_CERT, next |-> NoCert, ephem |-> st.ephem,
          nfind |-> 1]
    ELSE [rc |-> OK, next |-> keydb_get_cert(st), ephem |-> st.ephem,
          nfind |-> 1]

\* gpgsm_walk_cert_chain: the next certificate up, with a handle of its own.
gpgsm_walk_cert_chain(start, store) ==
  IF Cert(start).issuer = "" \/ Cert(start).subject = ""
    THEN [rc |-> GPG_ERR_BAD_CERT, next |-> NoCert, ephem |-> store,
          nfind |-> 0]
  ELSE IF Cert(start).issuer = Cert(start).subject
    THEN [rc |-> NOTFOUND, next |-> NoCert, ephem |-> store, nfind |-> 0]
  ELSE walk_cert_chain_next(
         find_up(keydb_new(store), start, Cert(start).issuer, FALSE))

\* certchain.c:1399-1410: the walk into the array of four slots.  w.array
\* holds the certificates walked so far, w.rc the result of the last step,
\* r the result of the step from the last of them.
RECURSIVE regtp_walk(_)
regtp_walk_step(w, r) ==
  IF r.rc = OK
    THEN regtp_walk([array |-> Append(w.array, r.next), rc |-> OK,
                     ephem |-> r.ephem, nfind |-> w.nfind + r.nfind])
    ELSE [w EXCEPT !.rc = r.rc, !.ephem = r.ephem,
                   !.nfind = w.nfind + r.nfind]

regtp_walk(w) ==
  IF Len(w.array) < 4
    THEN regtp_walk_step(w, gpgsm_walk_cert_chain(w.array[Len(w.array)],
                                                  w.ephem))
    ELSE w

\* certchain.c:1411-1416: the walk ended at a root within the array.
regtp_reached(w) ==
  ~(w.rc # NOTFOUND \/ Len(w.array) = 0 \/ Len(w.array) = 4)

\* A classifier that accepts a listed root of any country.
regtp_result_any_country(w, q) ==
  IF regtp_reached(w) /\ q.rc = OK
    THEN [ret |-> TRUE,
          chainlen |-> IF Len(w.array) > 1 THEN 0 ELSE 1,
          ud |-> IF Len(w.array) = 1 THEN "11"
                 ELSE IF Len(w.array) = 2 THEN "10" ELSE "none",
          ephem |-> w.ephem, nfind |-> w.nfind, nqual |-> 1]
    ELSE [ret |-> FALSE, chainlen |-> 0,
          ud |-> IF Len(w.array) = 1 THEN "empty" ELSE "none",
          ephem |-> w.ephem, nfind |-> w.nfind,
          nqual |-> IF regtp_reached(w) THEN 1 ELSE 0]

\* certchain.c:1411-1447: w is the walk that ended, q what the list of
\* qualified roots gave for the last certificate walked.
regtp_result(w, q) ==
  IF regtp_reached(w) /\ q.rc = OK /\ q.country = "de"
    THEN [ret |-> TRUE,
          chainlen |-> IF Len(w.array) > 1 THEN 0 ELSE 1,
          ud |-> IF Len(w.array) = 1 THEN "11"
                 ELSE IF Len(w.array) = 2 THEN "10" ELSE "none",
          ephem |-> w.ephem, nfind |-> w.nfind, nqual |-> 1]
    ELSE [ret |-> FALSE, chainlen |-> 0,
          ud |-> IF Len(w.array) = 1 THEN "empty" ELSE "none",
          ephem |-> w.ephem, nfind |-> w.nfind,
          nqual |-> IF regtp_reached(w) THEN 1 ELSE 0]

\* certchain.c:1424-1428 and 1441: the user data regtp_ca_chainlen set on
\* the certificates of the array, slot by slot; r is what the call returns.
regtp_marks(w, r) ==
  [ i \in 1 .. Len(w.array) |->
      IF r.ret
        THEN IF i = Len(w.array) THEN "11"
             ELSE IF i = Len(w.array) - 1 THEN "10" ELSE "none"
        ELSE IF i = Len(w.array) THEN "empty" ELSE "none" ]

\* certchain.c:1419
regtp_qualified(w) ==
  regtp_result(w, gpgsm_is_in_qualified_list(w.array[Len(w.array)]))

\* get_regtp_ca_info (c, &chainlen) for a certificate object whose user data
\* regtp_ca_chainlen is ud: "none" (not set), "empty" (the one-byte marker),
\* "10" or "11" (the bytes 1,0 and 1,1).  ud in the result is the user data
\* of that object afterwards.
get_regtp_ca_info(c, ud, store) ==
  IF ud # "none"
    THEN [ret |-> ud \in {"10", "11"},
          chainlen |-> IF ud = "11" THEN 1 ELSE 0,
          ud |-> ud, ephem |-> store, nfind |-> 0, nqual |-> 0]
    ELSE regtp_qualified(regtp_walk([array |-> <<c>>, rc |-> OK,
                                     ephem |-> store, nfind |-> 0]))

\* certchain.c:193-199: r is what get_regtp_ca_info gave.
allowed_ca_regtp(r) ==
  [rc |-> IF r.ret THEN OK ELSE GPG_ERR_BAD_CA_CERT,
   chainlen |-> r.chainlen, ud |-> r.ud, ephem |-> r.ephem,
   nfind |-> r.nfind, nqual |-> r.nqual]

\* A CA gate that does not look at the CA flag.
allowed_ca_any(c, ud, store) ==
  [rc |-> OK, chainlen |-> Cert(c).pathlen, ud |-> ud, ephem |-> store,
   nfind |-> 0, nqual |-> 0]

\* allowed_ca (c, &chainlen): the CA gate.
allowed_ca(c, ud, store) ==
  IF Cert(c).is_ca
    THEN [rc |-> OK, chainlen |-> Cert(c).pathlen, ud |-> ud,
          ephem |-> store, nfind |-> 0, nqual |-> 0]
    ELSE allowed_ca_regtp(get_regtp_ca_info(c, ud, store))

\* A revocation gate that has no case for NO_CRL_KNOWN.
is_cert_still_valid_no_crl_fatal(subject, err) ==
  LET e == IF ~opt.no_crl_check \/ use_ocsp THEN err ELSE OK
  IN  [ rc |-> IF e \in {OK, GPG_ERR_CERT_REVOKED, GPG_ERR_CRL_TOO_OLD}
                 THEN OK ELSE e,
        any_revoked |-> any_revoked \/ e = GPG_ERR_CERT_REVOKED,
        any_no_crl |-> any_no_crl,
        any_crl_too_old |-> any_crl_too_old \/ e = GPG_ERR_CRL_TOO_OLD,
        keydb_flags |-> IF e = GPG_ERR_CERT_REVOKED
                          THEN keydb_flags \cup {subject}
                          ELSE keydb_flags ]

\* A revocation gate that asks the responder whatever the options say.
responder_asked_always == TRUE

\* is_cert_still_valid with the responder's answer err (read only when the
\* responder is asked): the result and the flags afterwards.
responder_asked == ~opt.no_crl_check \/ use_ocsp

is_cert_still_valid(subject, err) ==
  LET asked == responder_asked
      e == IF asked THEN err ELSE OK
  IN  [ rc |-> IF e \in {OK, GPG_ERR_CERT_REVOKED, GPG_ERR_NO_CRL_KNOWN,
                         GPG_ERR_CRL_TOO_OLD} THEN OK ELSE e,
        any_revoked |-> any_revoked \/ e = GPG_ERR_CERT_REVOKED,
        any_no_crl |-> any_no_crl \/ e = GPG_ERR_NO_CRL_KNOWN,
        any_crl_too_old |-> any_crl_too_old \/ e = GPG_ERR_CRL_TOO_OLD,
        keydb_flags |-> IF e = GPG_ERR_CERT_REVOKED
                          THEN keydb_flags \cup {subject}
                          ELSE keydb_flags ]

(***************************************************************************)
(* gpgsm_validate_chain.  pc is the place the call has reached:            *)
(*   idle     no call yet             node     top of the loop             *)
(*   root     a self-issued subject   rootrev  revocation of the root      *)
(*   hop      depth++ and find_up     sig      try_another_cert            *)
(*   gate     CA gate and chain length                                     *)
(*   usage    key usage of the issuer rev      revocation of the edge      *)
(*   advance  issuer becomes subject  verdict  after the loop              *)
(*   leave    the leave label         done     returned                    *)
(***************************************************************************)
UD0 == [is_qualified |-> -1, regtp |-> "none"]

\* The certificates callers pass to gpgsm_validate_chain.
Leaves == CertNames

Options ==
  [ no_chain_validation       : BOOLEAN,
    no_policy_check           : BOOLEAN,
    no_crl_check              : BOOLEAN,
    no_trusted_cert_crl_check : BOOLEAN,
    ignore_expiration         : BOOLEAN,
    auto_issuer_key_retrieve  : BOOLEAN,
    policy_file               : {"policies"} ]

Calls0 ==
  [ sig |-> 0, find_up |-> 0, isvalid |-> 0, istrusted |-> 0,
    marktrusted |-> 0, qualified |-> 0, usage |-> 0, policy |-> 0 ]

\* The collaborators of a process either answer every call as they like
\* (fixed is FALSE) or give the same answer to the same question: the
\* answers given so far are then kept, by question.
Oracle0(fixed) ==
  [ fixed |-> fixed, istrusted |-> {}, marktrusted |-> {}, isvalid |-> {} ]

\* The answers of asked that go with the question q; all if there is none.
AnswersTo(asked, q, all) ==
  IF oracle.fixed /\ \E t \in asked : t[1] = q
    THEN { t[2] : t \in { u \in asked : u[1] = q } }
    ELSE all

Prev0 ==
  [ cert |-> NoCert, listmode |-> FALSE, flags |-> 0, use_ocsp |-> FALSE,
    rc |-> OK, marktrusted_rc |-> "-", is_qualified |-> -1,
    same_handle |-> FALSE ]

\* The references a call holds: kh counts the key database handles from
\* keydb_new, issuer and subject the references on the objects from
\* keydb_get_cert that issuer_cert and subject_cert point to, leaf the
\* references the call has taken on the caller's object (below 0: the call
\* has dropped a reference of the caller), tmp the reference of tmp_cert.
\* wild says that a pointer was released that held no reference.
Refs0 ==
  [ kh |-> 0, leaf |-> 0, subject |-> 0, issuer |-> 0, tmp |-> 0,
    wild |-> FALSE ]

\* keydb_new, ksba_cert_ref and a successful keydb_get_cert into a slot.
RefTake(r, slot) == [r EXCEPT ![slot] = @ + 1]

\* keydb_release and ksba_cert_release of the pointer in a slot; held says
\* that the pointer is not NULL.  A release of NULL does nothing.
RefRelease(r, slot, held) ==
  IF ~held THEN r
  ELSE IF slot = "leaf"
    THEN [r EXCEPT !.leaf = IF @ > -1 THEN @ - 1 ELSE @]
  ELSE IF r[slot] > 0 THEN [r EXCEPT ![slot] = @ - 1]
  ELSE [r EXCEPT !.wild = TRUE]

\* What keydb_get_cert may return: 0, or an error if the key database is
\* broken.  On an error it leaves the pointer it was given as it was.
\* No call of get_regtp_ca_info on its own has returned.
Regtp0 == [ ret |-> FALSE, chainlen |-> 0, array |-> <<>>, marks |-> <<>> ]

GetCertResults == IF keydb_broken THEN {OK, GPG_ERR_EIO} ELSE {OK}

Init ==
  /\ opt \in Options
  /\ ephem = <<>>
  /\ keydb_flags = {}
  /\ marktrusted_info = {}
  /\ no_more_questions = FALSE
  /\ cert = NoCert /\ listmode = FALSE /\ flags = 0 /\ use_ocsp = FALSE
  /\ pc = "idle" /\ rc = OK /\ depth = 0
  /\ subject_cert = NoCert /\ issuer_cert = NoCert
  /\ kh = [pos |-> 0, eph |-> FALSE, fault |-> 0]
  /\ any_expired = FALSE /\ any_revoked = FALSE /\ any_no_crl = FALSE
  /\ any_crl_too_old = FALSE /\ any_no_policy_match = FALSE
  /\ is_qualified = -1 /\ exptime = 0 /\ r_exptime = 0
  /\ is_root = FALSE /\ istrusted_rc = NOTFOUND
  /\ rootca_flags = [relax |-> FALSE] /\ chainlen = 0
  /\ userdata = [cert |-> UD0, subj |-> UD0, iss |-> UD0]
  /\ chain = <<>> /\ verified = {} /\ gate_run = {} /\ isvalid_calls = {}
  /\ isvalid_rc = "-" /\ marktrusted_rc = "-" /\ walk_finished = FALSE
  /\ calls = Calls0
  /\ ncalls = 0 /\ oracle = Oracle0(FALSE) /\ prev = Prev0
  /\ refs = Refs0 /\ keydb_broken = FALSE /\ regtp = Regtp0

\* The counts of calls stop at MaxCount.
MaxCount == 12

Bump(cs, f, n) ==
  [cs EXCEPT ![f] = IF @ + n > MaxCount THEN MaxCount ELSE @ + n]

\* The search state of the handle kh over the stores as they are now.
St ==
  [rc |-> OK, pos |-> kh.pos, eph |-> kh.eph, ephem |-> ephem,
   fault |-> kh.fault]
Handle(st) == [pos |-> st.pos, eph |-> st.eph, fault |-> st.fault]

\* The user data of the object subject_cert points to: the caller's object
\* until the first hop is done, an object got from the key database after.
SubjIsLeaf == Len(chain) = 1
SubjUD == IF SubjIsLeaf THEN userdata.cert ELSE userdata.subj
SetSubjUD(ud, u) ==
  IF SubjIsLeaf THEN [ud EXCEPT !.cert = u] ELSE [ud EXCEPT !.subj = u]

\* A bypass that does not look at the mode.
bypass_in_any_mode(lm) == opt.no_chain_validation

\* certchain.c:725: the validation is bypassed; lm is the list mode.
bypass(lm) == opt.no_chain_validation /\ ~lm

\* certchain.c:720-745
Call ==
  /\ pc = "idle"
  /\ \E c \in Leaves, lm \in BOOLEAN, f \in {0, 1}, ocsp \in BOOLEAN :
       /\ cert' = c /\ listmode' = lm /\ flags' = f /\ use_ocsp' = ocsp
       /\ r_exptime' = 0 /\ exptime' = 0
       /\ IF bypass(lm)
            THEN /\ pc' = "done" /\ rc' = OK
                 /\ UNCHANGED <<subject_cert, chain, depth, kh, refs>>
            ELSE /\ pc' = "node" /\ rc' = OK
                 /\ kh' = [pos |-> 0, eph |-> FALSE, fault |-> 0]
                 /\ subject_cert' = c
                 /\ chain' = <<c>>
                 /\ depth' = 0
                 /\ refs' = RefTake(RefTake(refs, "kh"), "leaf")
  /\ ncalls' = ncalls + 1
  /\ UNCHANGED <<procvars, flagvars, issuer_cert, is_qualified, is_root,
                 istrusted_rc, rootca_flags, chainlen, userdata, verified,
                 gate_run, isvalid_calls, isvalid_rc, marktrusted_rc,
                 walk_finished, calls, oracle, prev, keydb_broken, regtp>>

\* An expiration time that is the not-after of the node checked last.
min_exptime_last(not_after) == IF not_after # 0 THEN not_after ELSE exptime

\* certchain.c:792-798, the earliest not-after seen so far.
min_exptime(not_after) ==
  IF not_after # 0
    THEN IF exptime = 0 THEN not_after
         ELSE IF not_after < exptime THEN not_after ELSE exptime
    ELSE exptime

\* certchain.c:800: the certificate with the attributes c is not yet valid.
cert_too_young(c) == c.not_before # 0 /\ current_time < c.not_before

\* An expiry test that does not look at the ignore-expiration option.
cert_counts_as_expired_always(c) ==
  c.not_after # 0 /\ current_time > c.not_after

\* certchain.c:812-826: the certificate has expired and this is not ignored.
cert_counts_as_expired(c) ==
  c.not_after # 0 /\ current_time > c.not_after /\ ~opt.ignore_expiration

\* certchain.c:777-845: the validity period, the critical extensions and
\* the policies of a subject with the attributes c, uc being what
\* unknown_criticals gave and pol what the policy gate gave ("-" if the
\* policies are not checked).  fatal: the code goes to leave.
node_checks_of(c, uc, pol) ==
  LET young == cert_too_young(c)
      exp1 == any_expired \/ cert_counts_as_expired(c)
  IN  IF c.badvalidity
        THEN [rc |-> GPG_ERR_BAD_CERT, fatal |-> TRUE, exptime |-> exptime,
              any_expired |-> any_expired,
              any_no_policy_match |-> any_no_policy_match,
              policy_run |-> FALSE]
      ELSE IF young
        THEN [rc |-> GPG_ERR_CERT_TOO_YOUNG, fatal |-> TRUE,
              exptime |-> min_exptime(c.not_after),
              any_expired |-> any_expired,
              any_no_policy_match |-> any_no_policy_match,
              policy_run |-> FALSE]
      ELSE IF uc # OK
        THEN [rc |-> uc, fatal |-> TRUE,
              exptime |-> min_exptime(c.not_after), any_expired |-> exp1,
              any_no_policy_match |-> any_no_policy_match,
              policy_run |-> FALSE]
      ELSE IF pol = GPG_ERR_NO_POLICY_MATCH
        THEN [rc |-> "1", fatal |-> FALSE,
              exptime |-> min_exptime(c.not_after), any_expired |-> exp1,
              any_no_policy_match |-> TRUE, policy_run |-> TRUE]
      ELSE [rc |-> IF pol = "-" THEN OK ELSE pol,
            fatal |-> pol \notin {OK, "-"},
            exptime |-> min_exptime(c.not_after), any_expired |-> exp1,
            any_no_policy_match |-> any_no_policy_match,
            policy_run |-> pol # "-"]

\* A policy gate that does not look at the no-policy-check option.
policy_gate_always(s) == check_cert_policy(s)

\* certchain.c:834-835: the policy gate, "-" when it is switched off.
policy_gate(s) == IF opt.no_policy_check THEN "-" ELSE check_cert_policy(s)

node_checks(s) ==
  node_checks_of(Cert(s), unknown_criticals(s), policy_gate(s))

\* gpgsm_agent_istrusted (c): what the trust agent may answer, and the
\* oracle after it answered ans.
IstrustedOf(c) == AnswersTo(oracle.istrusted, c, IstrustedAnswers)

IstrustedGave(c, ans) ==
  IF oracle.fixed THEN [oracle EXCEPT !.istrusted = @ \cup {<<c, ans>>}]
                  ELSE oracle

\* certchain.c:765-845: root is whether the subject is self-issued, r the
\* result of its checks.
NodeChecksRun(root, r) ==
  \E ans \in (IF root THEN IstrustedOf(subject_cert)
                      ELSE {[rc |-> NOTFOUND, relax |-> FALSE]}) :
     /\ oracle' = IF root THEN IstrustedGave(subject_cert, ans) ELSE oracle
     /\ is_root' = root
     /\ istrusted_rc' = ans.rc
     /\ rootca_flags' = [relax |-> ans.relax]
     /\ calls' = Bump(Bump(calls, "istrusted", IF root THEN 1 ELSE 0),
                      "policy", IF r.policy_run THEN 1 ELSE 0)
     /\ exptime' = r.exptime
     /\ any_expired' = r.any_expired
     /\ any_no_policy_match' = r.any_no_policy_match
     /\ rc' = r.rc
     /\ pc' = IF r.fatal THEN "leave" ELSE IF root THEN "root" ELSE "hop"

\* certchain.c:752-845, for a subject with the attributes c.
NodeChecksAt(c) ==
  IF c.issuer = ""
    THEN /\ rc' = GPG_ERR_BAD_CERT /\ pc' = "leave"
         /\ UNCHANGED <<is_root, istrusted_rc, rootca_flags, exptime,
                        any_expired, any_no_policy_match, calls, oracle>>
    ELSE NodeChecksRun(c.subject # "" /\ c.issuer = c.subject,
                       node_checks(subject_cert))

\* certchain.c:752-845
NodeChecks ==
  /\ pc = "node"
  /\ NodeChecksAt(Cert(subject_cert))
  /\ UNCHANGED <<procvars, argvars, any_revoked, any_no_crl, any_crl_too_old,
                 depth, subject_cert, issuer_cert, kh, is_qualified,
                 r_exptime, chainlen, userdata, chain, verified, gate_run,
                 isvalid_calls, isvalid_rc, marktrusted_rc, walk_finished,
                 ncalls, prev,
                 resvars>>

\* A leaf that is taken to carry no flag.
is_qualified_cached_never(ud) == FALSE

\* certchain.c:884-886: the leaf carries the flag in its user data.
is_qualified_cached(ud) == ud.cert.is_qualified # -1

\* certchain.c:878-917: the qualified-signature flag, from the user data of
\* the leaf or from the list of qualified roots, which gave q.
qualified_flag_of(ud, q) ==
  IF ud.cert.is_qualified # -1
    THEN IF ud.cert.is_qualified # 0 THEN 1 ELSE 0
  ELSE IF q.rc = OK THEN 1
  ELSE IF q.rc = GPG_ERR_NOT_FOUND THEN 0
  ELSE -1

qualified_flag(ud) ==
  qualified_flag_of(ud, gpgsm_is_in_qualified_list(subject_cert))

\* A question that is not repeated in either mode.
ask_marktrusted_once ==
  /\ istrusted_rc = GPG_ERR_NOT_TRUSTED
  /\ ~any_expired
  /\ subject_cert \notin marktrusted_info

\* certchain.c:934-935: whether the user is to be asked about the root.
ask_marktrusted ==
  /\ istrusted_rc = GPG_ERR_NOT_TRUSTED
  /\ ~any_expired
  /\ (~listmode \/ subject_cert \notin marktrusted_info)

\* A trust decision that does not look at what the user answered.
trust_decision_any_answer(rc2) ==
  IF istrusted_rc = OK THEN OK
  ELSE IF ask_marktrusted THEN OK
  ELSE istrusted_rc

\* certchain.c:920-985: the result of the trust decision, rc2 being what
\* the question to the user gave (read only when the user is asked).
trust_decision(rc2) ==
  IF istrusted_rc = OK THEN OK
  ELSE IF ask_marktrusted /\ rc2 = OK THEN OK
  ELSE istrusted_rc

\* gpgsm_agent_marktrusted (c): what the user may answer, and the oracle
\* after the answer m.
MarktrustedOf(c) == AnswersTo(oracle.marktrusted, c, MarktrustedAnswers)

MarktrustedGave(c, m) ==
  IF oracle.fixed THEN [oracle EXCEPT !.marktrusted = @ \cup {<<c, m>>}]
                  ELSE oracle

\* A latch that CANCELED does not set.
latch_after_not_supported_only(rc2) ==
  no_more_questions \/ (ask_marktrusted /\ rc2 = GPG_ERR_NOT_SUPPORTED)

\* certchain.c:961-973: no_more_questions after the question to the user
\* gave rc2 (NOT_SUPPORTED without a question when the latch is set).
latch_after(rc2) ==
  no_more_questions
    \/ (ask_marktrusted
          /\ rc2 \in {GPG_ERR_NOT_SUPPORTED, GPG_ERR_CANCELED})

\* certchain.c:874-985: the qualified flag isq and the trust decision, ud1,
\* cs2 and store being the user data, the counts of calls and the ephemeral
\* store after the signature check and the CA gate of the root.
RootTrust(ud1, cs2, store, isq) ==
  LET cached == is_qualified_cached(ud1)
      ud2 == IF ~cached /\ isq # -1
               THEN IF SubjIsLeaf
                      THEN [ud1 EXCEPT !.cert.is_qualified = isq]
                      ELSE [ud1 EXCEPT !.subj.is_qualified = isq]
               ELSE ud1
      cs3 == IF cached THEN cs2 ELSE Bump(cs2, "qualified", 1)
      agent == ask_marktrusted /\ ~no_more_questions
  IN  \E m \in (IF agent THEN MarktrustedOf(subject_cert)
                         ELSE {GPG_ERR_NOT_SUPPORTED}) :
        /\ oracle' = IF agent THEN MarktrustedGave(subject_cert, m)
                               ELSE oracle
        /\ rc' = trust_decision(m)
        /\ pc' = IF trust_decision(m) # OK THEN "leave" ELSE "rootrev"
        /\ is_qualified' = isq
        /\ userdata' = ud2
        /\ ephem' = store
        /\ calls' = IF agent THEN Bump(cs3, "marktrusted", 1) ELSE cs3
        /\ marktrusted_rc' = IF agent THEN m ELSE marktrusted_rc
        /\ no_more_questions' = latch_after(m)
        /\ marktrusted_info' =
             IF ask_marktrusted
                  /\ m \notin {GPG_ERR_NOT_SUPPORTED, GPG_ERR_CANCELED}
               THEN marktrusted_info \cup {subject_cert}
               ELSE marktrusted_info

\* An error for a bad self-signature that does not depend on the depth.
bad_self_signature_in_chain == GPG_ERR_BAD_CERT_CHAIN

\* certchain.c:861-862: the error for a self-signature that does not verify.
bad_self_signature ==
  IF depth > 0 THEN GPG_ERR_BAD_CERT_CHAIN ELSE GPG_ERR_BAD_CERT

\* certchain.c:849-872: the signature of the root on itself, checked if
\* checksig with the result sigrc, and its CA gate, run if runca with the
\* result ca.
RootGates(checksig, sigrc, runca, ca) ==
  LET cs1 == IF checksig THEN Bump(calls, "sig", 1) ELSE calls
      cs2 == IF runca
               THEN Bump(Bump(cs1, "find_up", ca.nfind),
                         "qualified", ca.nqual)
               ELSE cs1
      ud1 == IF runca
               THEN SetSubjUD(userdata, [SubjUD EXCEPT !.regtp = ca.ud])
               ELSE userdata
  IN  IF checksig /\ sigrc # OK
        THEN /\ rc' = bad_self_signature
             /\ pc' = "leave"
             /\ calls' = cs1
             /\ UNCHANGED <<ephem, userdata, is_qualified, marktrusted_info,
                            no_more_questions, marktrusted_rc, oracle>>
      ELSE IF runca /\ ca.rc # OK
        THEN /\ rc' = ca.rc
             /\ pc' = "leave"
             /\ calls' = cs2
             /\ ephem' = ca.ephem
             /\ userdata' = ud1
             /\ UNCHANGED <<is_qualified, marktrusted_info,
                            no_more_questions, marktrusted_rc, oracle>>
      ELSE RootTrust(ud1, cs2, IF runca THEN ca.ephem ELSE ephem,
                     qualified_flag(ud1))

\* certchain.c:849-985
Root ==
  /\ pc = "root"
  /\ RootGates(istrusted_rc # OK,
               gpgsm_check_cert_sig(subject_cert, subject_cert),
               ~rootca_flags.relax,
               allowed_ca(subject_cert, SubjUD.regtp, ephem))
  /\ UNCHANGED <<opt, keydb_flags, argvars, flagvars, depth, subject_cert,
                 issuer_cert, kh, exptime, r_exptime, is_root, istrusted_rc,
                 rootca_flags, chainlen, chain, verified, gate_run,
                 isvalid_calls, isvalid_rc, walk_finished, ncalls, prev,
                 resvars>>

\* The call of is_cert_still_valid on the edge <<subject, issuer>>, the
\* responder answering err: what it leaves in the flags, the key database
\* and the observations.
RevocationGate(subject, issuer, err) ==
  LET v == is_cert_still_valid(subject, err)
  IN  /\ rc' = v.rc
      /\ any_revoked' = v.any_revoked
      /\ any_no_crl' = v.any_no_crl
      /\ any_crl_too_old' = v.any_crl_too_old
      /\ keydb_flags' = v.keydb_flags
      /\ gate_run' = gate_run \cup {<<subject, issuer>>}
      /\ isvalid_calls' = IF responder_asked
                            THEN isvalid_calls \cup {<<subject, issuer>>}
                            ELSE isvalid_calls
      /\ isvalid_rc' = IF responder_asked THEN err ELSE isvalid_rc
      /\ calls' = IF responder_asked THEN Bump(calls, "isvalid", 1)
                                     ELSE calls
      /\ oracle' = IF responder_asked /\ oracle.fixed
                     THEN [oracle EXCEPT
                             !.isvalid = @ \cup {<< <<subject, issuer>>, err>>}]
                     ELSE oracle

NoRevocationGate ==
  UNCHANGED <<any_revoked, any_no_crl, any_crl_too_old, keydb_flags,
              gate_run, isvalid_calls, isvalid_rc, calls, oracle>>

\* gpgsm_dirmngr_isvalid (subject, issuer): what the responder may answer.
ResponderAnswers(subject, issuer) ==
  IF responder_asked
    THEN AnswersTo(oracle.isvalid, <<subject, issuer>>, IsvalidAnswers)
    ELSE {OK}

\* A root check that forgets the relax flag.
root_skips_revocation_no_relax ==
  \/ flags % 2 = 1
  \/ opt.no_trusted_cert_crl_check

\* certchain.c:988-991: the root is not checked for revocation.
root_skips_revocation ==
  \/ flags % 2 = 1
  \/ opt.no_trusted_cert_crl_check
  \/ rootca_flags.relax

\* certchain.c:987-1000
RootRev ==
  /\ pc = "rootrev"
  /\ IF root_skips_revocation
       THEN /\ pc' = "verdict"
            /\ UNCHANGED rc
            /\ NoRevocationGate
       ELSE \E err \in ResponderAnswers(subject_cert, subject_cert) :
              /\ RevocationGate(subject_cert, subject_cert, err)
              /\ pc' = IF is_cert_still_valid(subject_cert, err).rc # OK
                         THEN "leave" ELSE "verdict"
  /\ UNCHANGED <<opt, ephem, marktrusted_info, no_more_questions, argvars,
                 any_expired, any_no_policy_match, depth, subject_cert,
                 issuer_cert, kh, is_qualified, exptime, r_exptime, is_root,
                 istrusted_rc, rootca_flags, chainlen, userdata, chain,
                 verified, marktrusted_rc, walk_finished, ncalls, prev,
                 resvars>>

\* A depth limit that is off by one.
chain_too_long_off_by_one(d) == d >= maxdepth

\* certchain.c:1003-1010
chain_too_long(d) == d > maxdepth

\* certchain.c:1033-1040: the issuer slot is released and keydb_get_cert,
\* which gave g, fills it from the handle st.
HopGot(st, g) ==
  IF g # OK
    THEN /\ rc' = GPG_ERR_GENERAL
         /\ pc' = "leave"
         /\ issuer_cert' = NoCert
         /\ refs' = RefRelease(refs, "issuer", issuer_cert # NoCert)
         /\ UNCHANGED userdata
    ELSE /\ rc' = OK
         /\ pc' = "sig"
         /\ issuer_cert' = keydb_get_cert(st)
         /\ refs' = RefTake(RefRelease(refs, "issuer", issuer_cert # NoCert),
                            "issuer")
         /\ userdata' = [userdata EXCEPT !.iss = UD0]

\* certchain.c:1014-1040: st is the handle after find_up.
HopFound(st) ==
  /\ kh' = Handle(st)
  /\ ephem' = st.ephem
  /\ calls' = Bump(calls, "find_up", 1)
  /\ IF st.rc # OK
       THEN /\ rc' = GPG_ERR_MISSING_CERT
            /\ pc' = "leave"
            /\ UNCHANGED <<issuer_cert, userdata, refs>>
       ELSE \E g \in GetCertResults : HopGot(st, g)

\* certchain.c:1003-1040
Hop ==
  /\ pc = "hop"
  /\ depth' = depth + 1
  /\ IF chain_too_long(depth + 1)
       THEN /\ rc' = GPG_ERR_BAD_CERT_CHAIN
            /\ pc' = "leave"
            /\ UNCHANGED <<kh, ephem, issuer_cert, userdata, calls, refs>>
       ELSE HopFound(find_up(keydb_search_reset(St), subject_cert,
                             Cert(subject_cert).issuer, FALSE))
  /\ UNCHANGED <<opt, keydb_flags, marktrusted_info, no_more_questions,
                 argvars, flagvars, subject_cert, is_qualified, exptime,
                 r_exptime, is_root, istrusted_rc, rootca_flags, chainlen,
                 chain, verified, gate_run, isvalid_calls, isvalid_rc,
                 marktrusted_rc, walk_finished, sessionvars,
                 keydb_broken, regtp>>

\* compare_certs returns 0 if the images are equal.
compare_certs(a, b) == IF a = b THEN 0 ELSE 1

\* The same with the result of compare_certs read the other way round.
try_another_cert_if_same(sigrc, st) ==
  IF /\ sigrc = GPG_ERR_BAD_SIGNATURE
     /\ st.rc = OK
     /\ compare_certs(issuer_cert, keydb_get_cert(st)) = 0
    THEN "retry"
    ELSE "fail"

\* certchain.c:1058-1089: what follows a failed signature check with result
\* sigrc, st being the handle after find_up (.., 1): "retry" with the
\* certificate the handle is on, or "fail".
try_another_cert(sigrc, st) ==
  IF /\ sigrc = GPG_ERR_BAD_SIGNATURE
     /\ st.rc = OK
     /\ compare_certs(issuer_cert, keydb_get_cert(st)) # 0
    THEN "retry"
    ELSE "fail"

\* tmp_cert (certchain.c:1069) is not initialised.  When keydb_get_cert
\* fails it holds what the stack held: NULL, a pointer left there by an
\* earlier round of the retry (the object issuer_cert points to now, or the
\* one that has become the subject since), or anything else.
StalePointers == {"null", "issuer", "subject", "other"}

\* ksba_cert_release of such a pointer.
ReleaseStale(r, stale) ==
  IF stale = "null" THEN r
  ELSE IF stale = "issuer" THEN RefRelease(r, "issuer", TRUE)
  ELSE IF stale = "subject"
    THEN RefRelease(r, IF SubjIsLeaf THEN "leaf" ELSE "subject", TRUE)
  ELSE [r EXCEPT !.wild = TRUE]

\* certchain.c:1071-1078: the references after ksba_cert_release
\* (tmp_cert) on the branch that stops; got says that keydb_get_cert
\* filled tmp_cert, stale is what it holds otherwise.
tmp_cert_released(got, stale) ==
  IF got THEN RefRelease(RefTake(refs, "tmp"), "tmp", TRUE)
         ELSE ReleaseStale(refs, stale)

\* certchain.c:1071 and 1084-1085: the references after issuer_cert was
\* released and tmp_cert put in its place.
tmp_cert_becomes_issuer ==
  LET got == RefTake(refs, "tmp")
      rel == RefRelease(got, "issuer", issuer_cert # NoCert)
  IN  [rel EXCEPT !.issuer = rel.issuer + rel.tmp, !.tmp = 0]

\* A signature check that takes only BAD_SIGNATURE for a failure.
sig_good_unless_bad_signature(sigrc) == sigrc # GPG_ERR_BAD_SIGNATURE

\* certchain.c:1049-1050: the signature check succeeded.
sig_good(sigrc) == sigrc = OK

\* certchain.c:1058-1093: the signature check gave BAD_SIGNATURE, st is the
\* handle after find_up (.., 1).
SigRetry(sigrc, st) ==
  /\ kh' = Handle(st)
  /\ ephem' = st.ephem
  /\ calls' = Bump(Bump(calls, "sig", 1), "find_up", 1)
  /\ UNCHANGED <<is_root, istrusted_rc, verified>>
  /\ \E g \in (IF st.rc = OK THEN GetCertResults ELSE {OK}) :
       IF g = OK /\ try_another_cert(sigrc, st) = "retry"
         THEN /\ rc' = OK
              /\ pc' = "sig"
              /\ issuer_cert' = keydb_get_cert(st)
              /\ userdata' = [userdata EXCEPT !.iss = UD0]
              /\ refs' = tmp_cert_becomes_issuer
         ELSE /\ rc' = GPG_ERR_BAD_CERT_CHAIN
              /\ pc' = "leave"
              /\ UNCHANGED <<issuer_cert, userdata>>
              /\ \E stale \in StalePointers :
                    refs' = IF st.rc # OK THEN refs
                            ELSE tmp_cert_released(g = OK, stale)

\* certchain.c:1049-1098: the signature check gave sigrc.
SigChecked(sigrc) ==
  IF sig_good(sigrc)
    THEN /\ rc' = OK
         /\ pc' = "gate"
         /\ is_root' = FALSE
         /\ istrusted_rc' = NOTFOUND
         /\ verified' = IF sigrc = OK
                          THEN verified \cup {<<subject_cert, issuer_cert>>}
                          ELSE verified
         /\ calls' = Bump(calls, "sig", 1)
         /\ UNCHANGED <<kh, ephem, issuer_cert, userdata, refs>>
  ELSE IF sigrc = GPG_ERR_BAD_SIGNATURE
    THEN SigRetry(sigrc, find_up(St, subject_cert,
                                 Cert(subject_cert).issuer, TRUE))
  ELSE /\ rc' = GPG_ERR_BAD_CERT_CHAIN
       /\ pc' = "leave"
       /\ calls' = Bump(calls, "sig", 1)
       /\ UNCHANGED <<kh, ephem, issuer_cert, userdata, is_root,
                      istrusted_rc, verified, refs>>

\* certchain.c:1042-1098
Sig ==
  /\ pc = "sig"
  /\ SigChecked(gpgsm_check_cert_sig(issuer_cert, subject_cert))
  /\ UNCHANGED <<opt, keydb_flags, marktrusted_info, no_more_questions,
                 argvars, flagvars, depth, subject_cert, is_qualified,
                 exptime, r_exptime, rootca_flags, chainlen, chain, gate_run,
                 isvalid_calls, isvalid_rc, marktrusted_rc, walk_finished,
                 sessionvars,
                 keydb_broken, regtp>>

\* A chain length check that is off by one.
chainlen_exceeded_off_by_one(d, len) == len >= 0 /\ (d - 2) > len

\* certchain.c:1130: the chain is longer than the CA allows.
chainlen_exceeded(d, len) == len >= 0 /\ (d - 1) > len

\* certchain.c:1104-1137: ca is what allowed_ca gave for the issuer, isroot
\* whether the trust agent is asked about it.
GateDecide(ca, isroot) ==
  \E ans \in (IF isroot THEN IstrustedOf(issuer_cert)
                        ELSE {[rc |-> NOTFOUND, relax |-> FALSE]}) :
     LET relaxed == isroot /\ ans.rc = OK /\ ans.relax
         rc1 == IF ca.rc # OK /\ ~relaxed THEN ca.rc ELSE OK
         len == IF relaxed THEN -1 ELSE ca.chainlen
     IN  /\ oracle' = IF isroot THEN IstrustedGave(issuer_cert, ans)
                                ELSE oracle
         /\ is_root' = isroot
         /\ istrusted_rc' = ans.rc
         /\ rootca_flags' = [relax |-> ans.relax]
         /\ chainlen' = len
         /\ ephem' = ca.ephem
         /\ userdata' = [userdata EXCEPT !.iss.regtp = ca.ud]
         /\ calls' = Bump(Bump(Bump(calls, "find_up", ca.nfind),
                               "qualified", ca.nqual),
                          "istrusted", IF isroot THEN 1 ELSE 0)
         /\ IF rc1 # OK
              THEN rc' = rc1 /\ pc' = "leave"
              ELSE IF chainlen_exceeded(depth, len)
                THEN rc' = GPG_ERR_BAD_CERT_CHAIN /\ pc' = "leave"
                ELSE rc' = OK /\ pc' = "usage"

\* A walk that puts the subject through the CA gate in the place of its
\* issuer.
GateAllowed_for_subject(ca) ==
  GateDecide(allowed_ca(subject_cert, SubjUD.regtp, ca.ephem),
             ca.rc # OK /\ gpgsm_is_root_cert(issuer_cert))

\* certchain.c:1104-1117
GateAllowed(ca) ==
  GateDecide(ca, ca.rc # OK /\ gpgsm_is_root_cert(issuer_cert))

\* certchain.c:1100-1138
Gate ==
  /\ pc = "gate"
  /\ GateAllowed(allowed_ca(issuer_cert, userdata.iss.regtp, ephem))
  /\ UNCHANGED <<opt, keydb_flags, marktrusted_info, no_more_questions,
                 argvars, flagvars, depth, subject_cert, issuer_cert, kh,
                 is_qualified, exptime, r_exptime, chain, verified, gate_run,
                 isvalid_calls, isvalid_rc, marktrusted_rc, walk_finished,
                 ncalls, prev,
                 resvars>>

\* certchain.c:1140-1152
Usage ==
  /\ pc = "usage"
  /\ IF ~listmode
       THEN /\ rc' = gpgsm_cert_use_cert_p(issuer_cert)
            /\ calls' = Bump(calls, "usage", 1)
            /\ pc' = IF gpgsm_cert_use_cert_p(issuer_cert) # OK
                       THEN "leave" ELSE "rev"
       ELSE /\ pc' = "rev"
            /\ UNCHANGED <<rc, calls>>
  /\ UNCHANGED <<procvars, argvars, flagvars, depth, subject_cert,
                 issuer_cert, kh, is_qualified, exptime, r_exptime, is_root,
                 istrusted_rc, rootca_flags, chainlen, userdata, chain,
                 verified, gate_run, isvalid_calls, isvalid_rc,
                 marktrusted_rc, walk_finished, sessionvars,
                 resvars>>

\* certchain.c:1157-1161: the edge is not checked for revocation.
edge_skips_revocation ==
  \/ flags % 2 = 1
  \/ is_root /\ (opt.no_trusted_cert_crl_check
                   \/ (istrusted_rc = OK /\ rootca_flags.relax))

\* certchain.c:1154-1167
Rev ==
  /\ pc = "rev"
  /\ IF edge_skips_revocation
       THEN /\ pc' = "advance"
            /\ rc' = IF flags % 2 = 1 THEN OK ELSE rc
            /\ NoRevocationGate
       ELSE \E err \in ResponderAnswers(subject_cert, issuer_cert) :
              /\ RevocationGate(subject_cert, issuer_cert, err)
              /\ pc' = IF is_cert_still_valid(subject_cert, err).rc # OK
                         THEN "leave" ELSE "advance"
  /\ UNCHANGED <<opt, ephem, marktrusted_info, no_more_questions, argvars,
                 any_expired, any_no_policy_match, depth, subject_cert,
                 issuer_cert, kh, is_qualified, exptime, r_exptime, is_root,
                 istrusted_rc, rootca_flags, chainlen, userdata, chain,
                 verified, marktrusted_rc, walk_finished, ncalls, prev,
                 resvars>>

\* certchain.c:1175-1177: the references after subject_cert was released
\* and issuer_cert put in its place.
issuer_becomes_subject ==
  LET rel == RefRelease(refs, IF SubjIsLeaf THEN "leaf" ELSE "subject",
                        subject_cert # NoCert)
  IN  [rel EXCEPT !.subject = rel.subject + rel.issuer, !.issuer = 0]

\* certchain.c:1173-1177
Advance ==
  /\ pc = "advance"
  /\ pc' = "node"
  /\ kh' = [kh EXCEPT !.pos = 0]
  /\ subject_cert' = issuer_cert
  /\ issuer_cert' = NoCert
  /\ chain' = Append(chain, issuer_cert)
  /\ userdata' = [userdata EXCEPT !.subj = userdata.iss, !.iss = UD0]
  /\ refs' = issuer_becomes_subject
  /\ UNCHANGED <<procvars, argvars, flagvars, rc, depth, is_qualified,
                 exptime, r_exptime, is_root, istrusted_rc, rootca_flags,
                 chainlen, verified, gate_run, isvalid_calls, isvalid_rc,
                 marktrusted_rc, walk_finished, calls, sessionvars,
                 keydb_broken, regtp>>

\* A verdict that ranks an expired certificate above a revoked one.
soft_verdict_expired_first ==
  IF any_expired THEN GPG_ERR_CERT_EXPIRED
  ELSE IF any_revoked THEN GPG_ERR_CERT_REVOKED
  ELSE IF any_no_crl THEN GPG_ERR_NO_CRL_KNOWN
  ELSE IF any_crl_too_old THEN GPG_ERR_CRL_TOO_OLD
  ELSE IF any_no_policy_match THEN GPG_ERR_NO_POLICY_MATCH
  ELSE OK

\* certchain.c:1190-1203: the most critical of the soft errors.
soft_verdict ==
  IF any_revoked THEN GPG_ERR_CERT_REVOKED
  ELSE IF any_expired THEN GPG_ERR_CERT_EXPIRED
  ELSE IF any_no_crl THEN GPG_ERR_NO_CRL_KNOWN
  ELSE IF any_crl_too_old THEN GPG_ERR_CRL_TOO_OLD
  ELSE IF any_no_policy_match THEN GPG_ERR_NO_POLICY_MATCH
  ELSE OK

\* certchain.c:1180-1203
Verdict ==
  /\ pc = "verdict"
  /\ pc' = "leave"
  /\ rc' = IF rc = OK THEN soft_verdict ELSE rc
  /\ walk_finished' = TRUE
  /\ UNCHANGED <<procvars, argvars, flagvars, depth, subject_cert,
                 issuer_cert, kh, is_qualified, exptime, r_exptime, is_root,
                 istrusted_rc, rootca_flags, chainlen, userdata, chain,
                 verified, gate_run, isvalid_calls, isvalid_rc,
                 marktrusted_rc, calls, sessionvars,
                 resvars>>

\* certchain.c:1231-1233: the references after keydb_release (kh),
\* ksba_cert_release (issuer_cert) and ksba_cert_release (subject_cert).
released_at_leave ==
  RefRelease(RefRelease(RefRelease(refs, "kh", TRUE),
                        "issuer", issuer_cert # NoCert),
             IF SubjIsLeaf THEN "leaf" ELSE "subject",
             subject_cert # NoCert)

\* certchain.c:1205-1234
Leave ==
  /\ pc = "leave"
  /\ pc' = "done"
  /\ userdata' = IF is_qualified # -1
                   THEN [cert |-> [userdata.cert EXCEPT
                                     !.is_qualified =
                                        IF is_qualified # 0 THEN 1 ELSE 0],
                         subj |-> UD0, iss |-> UD0]
                   ELSE [cert |-> userdata.cert, subj |-> UD0, iss |-> UD0]
  /\ r_exptime' = exptime
  /\ subject_cert' = NoCert
  /\ issuer_cert' = NoCert
  /\ refs' = released_at_leave
  /\ UNCHANGED <<procvars, argvars, flagvars, rc, depth, kh, is_qualified,
                 exptime, is_root, istrusted_rc, rootca_flags, chainlen,
                 obsvars, sessionvars,
                 keydb_broken, regtp>>

Next ==
  \/ Call
  \/ NodeChecks
  \/ Root
  \/ RootRev
  \/ Hop
  \/ Sig
  \/ Gate
  \/ Usage
  \/ Rev
  \/ Advance
  \/ Verdict
  \/ Leave

Spec == Init /\ [][Next]_vars

(***************************************************************************)
(* Properties of gpgsm_validate_chain.                                     *)
(***************************************************************************)
Last(q) == q[Len(q)]

\* The call does validate: it did not return at certchain.c:725-729.
Validating == ~(opt.no_chain_validation /\ ~listmode)

Accepted == pc = "done" /\ rc = OK /\ Validating

SoftAnswers ==
  { OK, GPG_ERR_CERT_REVOKED, GPG_ERR_NO_CRL_KNOWN, GPG_ERR_CRL_TOO_OLD }

\* The classifier's answer for a certificate object without user data.
RegTP(c) == get_regtp_ca_info(c, "none", ephem)

IsCaOrRescued(c) == Cert(c).is_ca \/ RegTP(c).ret

\* The issuer passed the CA gate only because it is a self-issued
\* certificate the trust agent reported as trusted with the relax flag.
Relaxed == is_root /\ istrusted_rc = OK /\ rootca_flags.relax

\* The chain length the CA gate yields for an issuer.
GateLen(c) ==
  IF Cert(c).is_ca THEN Cert(c).pathlen
  ELSE IF RegTP(c).ret THEN RegTP(c).chainlen
  ELSE -1

\* The checks of the edge <<subject_cert, issuer_cert>> after the signature
\* check are under way or done.
PastSig == pc \in {"usage", "rev", "advance"}

\* The call is at leave with an issuer whose signature on the subject
\* verified: it left from the CA gate, the key usage or the revocation gate.
LeftAfterSig ==
  /\ pc = "leave"
  /\ issuer_cert # NoCert
  /\ <<subject_cert, issuer_cert>> \in verified

\* C1: a successful validation ended at a self-issued root that the trust
\* agent reported as trusted (istrusted returned OK) or that the user
\* marked as trusted in this call (marktrusted returned OK); the same holds
\* once the trust decision let the walk go on to the root's revocation check.
C1_SuccessNeedsTrustedRoot ==
  (Accepted \/ pc \in {"rootrev", "verdict"}) =>
     /\ chain # <<>>
     /\ gpgsm_is_root_cert(Last(chain))
     /\ is_root
     /\ (istrusted_rc = OK
           \/ (istrusted_rc = GPG_ERR_NOT_TRUSTED /\ marktrusted_rc = OK))

C1_Witness ==
  /\ Accepted
  /\ Len(chain) = 3
  /\ istrusted_rc = GPG_ERR_NOT_TRUSTED
  /\ marktrusted_rc = OK

\* C2: every certificate that became the subject after a hop is the issuer
\* against which the signature of the previous subject verified, also after
\* the issuer was replaced by the retry; no certificate before the last of
\* the chain is self-issued.
C2_EveryHopVerified ==
  /\ \A i \in 1 .. (Len(chain) - 1) :
       /\ <<chain[i], chain[i + 1]>> \in verified
       /\ Cert(chain[i]).sigkey = Cert(chain[i + 1]).key
       /\ Cert(chain[i]).hashalgo
       /\ ~gpgsm_is_root_cert(chain[i])
  /\ (pc \in {"gate", "usage", "rev", "advance"}) =>
       /\ <<subject_cert, issuer_cert>> \in verified
       /\ Cert(subject_cert).sigkey = Cert(issuer_cert).key

C2_Witness ==
  /\ Accepted
  /\ chain = <<"L", "CA2", "K0">>
  /\ <<"L", "CA1">> \notin verified
  /\ calls.sig >= 3

C5_PathLenRespected ==
  /\ PastSig =>
       /\ chainlen = IF IsCaOrRescued(issuer_cert)
                       THEN GateLen(issuer_cert) ELSE -1
       /\ chainlen >= 0 => depth - 1 <= chainlen
       /\ depth = Len(chain)
  /\ Accepted =>
       \A d \in 1 .. (Len(chain) - 1) :
          GateLen(chain[d + 1]) >= 0 => d - 1 <= GateLen(chain[d + 1])
  /\ (LeftAfterSig /\ IsCaOrRescued(issuer_cert)
        /\ GateLen(issuer_cert) >= 0 /\ depth - 1 > GateLen(issuer_cert))
       => rc = GPG_ERR_BAD_CERT_CHAIN

C5_Witness ==
  /\ Accepted
  /\ chain = <<"QL", "QC", "Q">>
  /\ GateLen("QC") = 0 /\ GateLen("Q") = 1

\* A walk found an issuer that allows no chain of this length.
C5_WitnessTooLong ==
  /\ pc = "done"
  /\ cert = "PL"
  /\ chain = <<"PL", "PS">>
  /\ depth = 2
  /\ rc = GPG_ERR_BAD_CERT_CHAIN

\* The state part of C6.
DepthBounded ==
  /\ depth <= maxdepth + 1
  /\ (pc \notin {"leave", "done"}) => depth <= maxdepth
  /\ Len(chain) <= maxdepth + 1
  /\ (chain # <<>>) => depth \in {Len(chain) - 1, Len(chain)}
  /\ (depth > maxdepth) =>
       /\ rc = GPG_ERR_BAD_CERT_CHAIN
       /\ issuer_cert = NoCert
       /\ ~gpgsm_is_root_cert(Last(chain))
  /\ (pc = "done" /\ cert = KName(maxdepth)) => rc # GPG_ERR_BAD_CERT_CHAIN
  /\ (pc = "done" /\ cert = KName(maxdepth + 1) /\ Validating)
       => /\ rc # OK
          /\ ~walk_finished
          /\ KName(0) \notin { chain[i] : i \in 1 .. Len(chain) }
          /\ (Len(chain) = maxdepth + 1) => rc = GPG_ERR_BAD_CERT_CHAIN

C6_WitnessTooDeep ==
  /\ pc = "done"
  /\ cert = KName(maxdepth + 1)
  /\ depth = maxdepth + 1
  /\ rc = GPG_ERR_BAD_CERT_CHAIN

HasUnknownCritical(c) ==
  \E i \in 1 .. Len(Cert(c).exts) :
     /\ Cert(c).exts[i][2]
     /\ Cert(c).exts[i][1] \notin { "2.5.29.15", "2.5.29.19", "2.5.29.32",
                                    "2.5.29.37" }

\* The node passes the checks made before the critical-extension gate.
ValidityPasses(c) ==
  /\ Cert(c).issuer # ""
  /\ ~Cert(c).badvalidity
  /\ ~(Cert(c).not_before # 0 /\ current_time < Cert(c).not_before)

C7_WitnessIssuer ==
  /\ pc = "done"
  /\ chain = <<"LCX", "CX">>
  /\ rc = GPG_ERR_UNSUPPORTED_CERT

\* C8: for every edge the walk goes past, the revocation gate ran on
\* (subject, issuer), unless bit 0 of flags is set or revocation checking is
\* off for the call.
C8_EdgeRevocationAlwaysRun ==
  (pc = "advance") =>
     \/ <<subject_cert, issuer_cert>> \in gate_run
     \/ flags % 2 = 1
     \/ (opt.no_crl_check /\ ~use_ocsp)

\* The edge to a root that is no CA and was let through by the relax flag
\* went unchecked although revocation checks were asked for.
C8_Skipped ==
  /\ Accepted
  /\ chain = <<"LRX", "RX">>
  /\ flags % 2 = 0
  /\ ~opt.no_crl_check
  /\ ~opt.no_trusted_cert_crl_check
  /\ isvalid_calls = {}

\* C9: once the trust decision ended in OK, the revocation gate runs on
\* (root, root) exactly if bit 0 of flags is clear, no_trusted_cert_crl_check
\* is off and the root has no relax flag.
C9_RootRevocationGate ==
  /\ (pc = "verdict") =>
       (<<subject_cert, subject_cert>> \in gate_run
          <=> ~(flags % 2 = 1 \/ opt.no_trusted_cert_crl_check
                  \/ rootca_flags.relax))
  /\ \A c \in CertNames :
       (<<c, c>> \in gate_run) =>
          /\ chain # <<>> /\ c = Last(chain)
          /\ is_root
          /\ (istrusted_rc = OK \/ marktrusted_rc = OK)
          /\ flags % 2 = 0
          /\ ~opt.no_trusted_cert_crl_check
          /\ ~rootca_flags.relax

C9_Witness ==
  /\ pc = "verdict"
  /\ <<subject_cert, subject_cert>> \in gate_run
  /\ <<subject_cert, subject_cert>> \in isvalid_calls

\* The root's check was skipped for the relax flag alone.
C9_WitnessRelax ==
  /\ pc = "verdict"
  /\ rootca_flags.relax
  /\ flags % 2 = 0 /\ ~opt.no_trusted_cert_crl_check
  /\ <<subject_cert, subject_cert>> \notin gate_run

\* C10: each answer of the revocation responder is mapped as follows:
\* CERT_REVOKED sets any_revoked and marks the subject in the key database,
\* NO_CRL_KNOWN sets any_no_crl, CRL_TOO_OLD sets any_crl_too_old, and with
\* these and with success the walk goes on; any other answer ends the call
\* with that answer.
C10_ResponderMapping ==
  /\ [][ (calls.isvalid' = calls.isvalid + 1) =>
          LET e == isvalid_rc' IN
            /\ pc \in {"rev", "rootrev"}
            /\ any_revoked' = (any_revoked \/ e = GPG_ERR_CERT_REVOKED)
            /\ any_no_crl' = (any_no_crl \/ e = GPG_ERR_NO_CRL_KNOWN)
            /\ any_crl_too_old' = (any_crl_too_old \/ e = GPG_ERR_CRL_TOO_OLD)
            /\ keydb_flags' = IF e = GPG_ERR_CERT_REVOKED
                                THEN keydb_flags \cup {subject_cert}
                                ELSE keydb_flags
            /\ (e \in SoftAnswers) =>
                 /\ rc' = OK
                 /\ pc' = IF pc = "rev" THEN "advance" ELSE "verdict"
            /\ (e \notin SoftAnswers) => (rc' = e /\ pc' = "leave") ]_vars
  /\ []((pc = "done" /\ calls.isvalid > 0 /\ isvalid_rc \notin SoftAnswers)
          => rc = isvalid_rc)
  /\ []((any_revoked \/ any_no_crl \/ any_crl_too_old) => calls.isvalid > 0)

C10_Witness ==
  /\ pc = "done"
  /\ walk_finished
  /\ chain = <<"L", "CA2", "K0">>
  /\ rc = GPG_ERR_CERT_REVOKED
  /\ "L" \in keydb_flags
  /\ any_no_crl

\* The responder's other answer ended the call.
C10_WitnessFatal ==
  /\ pc = "done"
  /\ calls.isvalid > 0
  /\ isvalid_rc = GPG_ERR_OTHER
  /\ rc = GPG_ERR_OTHER

\* Revocation checks are off for the call: the caller set bit 0 of flags, or
\* CRL checks are disabled and OCSP is not used.
RevocationOff == flags % 2 = 1 \/ (opt.no_crl_check /\ ~use_ocsp)

\* C11: in a call with bit 0 of flags set, or with no_crl_check set and
\* use_ocsp unset, the revocation responder is never asked, for no edge and
\* not for the root, none of any_revoked, any_no_crl and any_crl_too_old is
\* ever set, and the call returns none of CERT_REVOKED, NO_CRL_KNOWN and
\* CRL_TOO_OLD.
C11_NoRevocationWhenOff ==
  (pc # "idle" /\ RevocationOff) =>
     /\ calls.isvalid = 0
     /\ isvalid_calls = {}
     /\ isvalid_rc = "-"
     /\ ~any_revoked /\ ~any_no_crl /\ ~any_crl_too_old
     /\ keydb_flags = {}
     /\ rc \notin { GPG_ERR_CERT_REVOKED, GPG_ERR_NO_CRL_KNOWN,
                    GPG_ERR_CRL_TOO_OLD }

C11_Witness ==
  /\ Accepted
  /\ chain = <<"L", "CA2", "K0">>
  /\ opt.no_crl_check /\ ~use_ocsp
  /\ flags % 2 = 0
  /\ gate_run = { <<"L", "CA2">>, <<"CA2", "K0">>, <<"K0", "K0">> }
  /\ calls.isvalid = 0

\* The same with the caller's flag.
C11_WitnessFlag ==
  /\ Accepted
  /\ chain = <<"L", "CA2", "K0">>
  /\ flags % 2 = 1
  /\ ~opt.no_crl_check
  /\ gate_run = {}

\* The certificates of the walk whose validity was read: those that became
\* the subject and went through the check of the validity period.
Examined ==
  { chain[i] : i \in { j \in 1 .. Len(chain) :
                         /\ (j < Len(chain) \/ pc # "node")
                         /\ Cert(chain[j]).issuer # ""
                         /\ ~Cert(chain[j]).badvalidity } }

\* The earliest of the not-after times the certificates of S carry, 0 (the
\* empty time) if none of them carries one.
MinNotAfter(S) ==
  LET T == { Cert(c).not_after : c \in S } \ {0}
  IN  IF T = {} THEN 0 ELSE Min(T)

\* C12: throughout the walk exptime is the earliest not-after of the
\* certificates whose validity was examined so far, and on every return
\* from a call that went through the walk the expiration time handed to the
\* caller is that minimum (the empty time if no examined certificate
\* carries a not-after).
C12_ExptimeIsMinimum ==
  /\ (chain # <<>>) => exptime = MinNotAfter(Examined)
  /\ (pc = "done" /\ chain # <<>>) => r_exptime = MinNotAfter(Examined)
  /\ (pc \notin {"idle", "done"}) => r_exptime = 0

C12_Witness ==
  /\ pc = "done"
  /\ chain = <<"LCE", "CE", "K0">>
  /\ Cert("CE").not_after < Cert("LCE").not_after
  /\ Cert("CE").not_after < Cert("K0").not_after
  /\ r_exptime = Cert("CE").not_after

\* A fatal exit after the second node was examined.
C12_WitnessFatal ==
  /\ pc = "done"
  /\ chain = <<"LCX", "CX">>
  /\ rc = GPG_ERR_UNSUPPORTED_CERT
  /\ r_exptime = T_LATER

\* No examined certificate carries a not-after.
C12_WitnessEmpty ==
  /\ pc = "done"
  /\ chain = <<"LB">>
  /\ r_exptime = 0

TooYoung(c) == Cert(c).not_before # 0 /\ current_time < Cert(c).not_before

HasExpired(c) == Cert(c).not_after # 0 /\ current_time > Cert(c).not_after

\* The state part of C13.
ExpiryFlagged ==
  /\ any_expired <=> (~opt.ignore_expiration
                        /\ \E c \in Examined : HasExpired(c) /\ ~TooYoung(c))
  /\ \A i \in 1 .. (Len(chain) - 1) : ~TooYoung(chain[i])
  /\ (pc \notin {"idle", "node", "leave", "done"})
       => ~TooYoung(subject_cert)
  /\ (pc \in {"leave", "done"} /\ chain # <<>>
        /\ Last(chain) \in Examined /\ TooYoung(Last(chain)))
       => rc = GPG_ERR_CERT_TOO_YOUNG
  /\ rc # GPG_ERR_CERT_EXPIRED
       \/ (walk_finished /\ any_expired /\ ~any_revoked)
  /\ (pc = "done" /\ walk_finished /\ ~any_revoked /\ ~opt.ignore_expiration
        /\ \E i \in 1 .. Len(chain) : HasExpired(chain[i]))
       => rc = GPG_ERR_CERT_EXPIRED
  /\ Accepted =>
       (opt.ignore_expiration
          \/ \A i \in 1 .. Len(chain) : ~HasExpired(chain[i]))

\* C13: a node whose not-before is later than the current time ends the
\* call with CERT_TOO_YOUNG; a node whose not-after is earlier does not end
\* it: without ignore_expiration it sets any_expired and the walk goes on,
\* with ignore_expiration no flag is set; a chain that is fine but for an
\* expired certificate returns CERT_EXPIRED in the first case and success
\* in the second.
C13_ValidityWindow ==
  /\ []ExpiryFlagged
  /\ [][ (pc = "node" /\ subject_cert \in Examined') =>
           /\ TooYoung(subject_cert)
                => /\ pc' = "leave" /\ rc' = GPG_ERR_CERT_TOO_YOUNG
                   /\ any_expired' = any_expired
           /\ (~TooYoung(subject_cert) /\ HasExpired(subject_cert))
                => /\ any_expired' = (any_expired \/ ~opt.ignore_expiration)
                   /\ (unknown_criticals(subject_cert) = OK
                         /\ (opt.no_policy_check
                               \/ check_cert_policy(subject_cert)
                                     \in {OK, GPG_ERR_NO_POLICY_MATCH}))
                        => pc' \in {"root", "hop"}
           /\ (~TooYoung(subject_cert) /\ ~HasExpired(subject_cert))
                => any_expired' = any_expired ]_vars

C13_Witness ==
  /\ pc = "done"
  /\ chain = <<"LX", "K0">>
  /\ ~opt.ignore_expiration
  /\ any_expired
  /\ rc = GPG_ERR_CERT_EXPIRED

\* The same chain is accepted when expiration is ignored.
C13_WitnessIgnored ==
  /\ Accepted
  /\ chain = <<"LX", "K0">>
  /\ opt.ignore_expiration
  /\ ~any_expired

C13_WitnessYoung ==
  /\ pc = "done"
  /\ chain = <<"LY">>
  /\ rc = GPG_ERR_CERT_TOO_YOUNG

\* The positions of the chain whose node reached the policy gate.
AtPolicyGate ==
  { j \in 1 .. Len(chain) :
      /\ chain[j] \in Examined
      /\ (j < Len(chain) \/ pc # "node")
      /\ ~TooYoung(chain[j])
      /\ unknown_criticals(chain[j]) = OK }

PolicyErrors ==
  { GPG_ERR_NO_POLICY_MATCH, GPG_ERR_INV_CERT_OBJ, GPG_ERR_CONFIGURATION,
    GPG_ERR_LINE_TOO_LONG, GPG_ERR_INCOMPLETE_LINE }

\* The state part of C14.
PolicyFlagged ==
  /\ opt.no_policy_check =>
       /\ calls.policy = 0
       /\ ~any_no_policy_match
       /\ rc \notin PolicyErrors
  /\ ~opt.no_policy_check =>
       /\ calls.policy = Cardinality(AtPolicyGate)
       /\ any_no_policy_match <=>
            \E j \in AtPolicyGate :
               check_cert_policy(chain[j]) = GPG_ERR_NO_POLICY_MATCH
       /\ \A j \in AtPolicyGate :
            check_cert_policy(chain[j]) \notin {OK, GPG_ERR_NO_POLICY_MATCH}
              => /\ j = Len(chain)
                 /\ pc \in {"leave", "done"}
                 /\ rc = check_cert_policy(chain[j])
                 /\ ~walk_finished
  /\ rc = GPG_ERR_NO_POLICY_MATCH =>
       /\ walk_finished /\ any_no_policy_match
       /\ ~any_revoked /\ ~any_expired /\ ~any_no_crl /\ ~any_crl_too_old
  /\ (pc = "done" /\ walk_finished /\ any_no_policy_match /\ ~any_revoked
        /\ ~any_expired /\ ~any_no_crl /\ ~any_crl_too_old)
       => rc = GPG_ERR_NO_POLICY_MATCH

\* C14: a node for which the policy gate returns NO_POLICY_MATCH sets
\* any_no_policy_match and goes on with its remaining checks and with the
\* nodes above it; the call returns NO_POLICY_MATCH only when the walk
\* ended without a fatal error and no soft flag of higher priority is set;
\* any other error of the policy gate ends the call at that node with that
\* error; with no_policy_check the policy gate is never run.
C14_PolicyMismatchIsSoft ==
  /\ []PolicyFlagged
  /\ [][ (pc = "node" /\ calls'.policy = calls.policy + 1) =>
           /\ check_cert_policy(subject_cert) = GPG_ERR_NO_POLICY_MATCH
                => /\ any_no_policy_match'
                   /\ pc' \in {"root", "hop"}
                   /\ subject_cert' = subject_cert
           /\ check_cert_policy(subject_cert) = OK
                => /\ any_no_policy_match' = any_no_policy_match
                   /\ pc' \in {"root", "hop"}
           /\ check_cert_policy(subject_cert)
                 \notin {OK, GPG_ERR_NO_POLICY_MATCH}
                => /\ any_no_policy_match' = any_no_policy_match
                   /\ pc' = "leave"
                   /\ rc' = check_cert_policy(subject_cert) ]_vars

\* The mismatch at the leaf LCP's issuer CP: the walk went on to the root
\* and did every check of the two edges.
C14_Witness ==
  /\ pc = "done"
  /\ chain = <<"LCP", "CP", "K0">>
  /\ rc = GPG_ERR_NO_POLICY_MATCH
  /\ calls.policy = 3
  /\ verified = { <<"LCP", "CP">>, <<"CP", "K0">> }
  /\ <<"CP", "K0">> \in gate_run

\* A mismatch with a soft flag of higher priority.
C14_WitnessOutranked ==
  /\ pc = "done"
  /\ chain = <<"LP", "K0">>
  /\ any_no_policy_match
  /\ rc = GPG_ERR_NO_CRL_KNOWN

\* Another error of the policy gate.
C14_WitnessFatal ==
  /\ pc = "done"
  /\ chain = <<"LPE">>
  /\ rc = GPG_ERR_INV_CERT_OBJ

\* The gate switched off.
C14_WitnessOff ==
  /\ Accepted
  /\ opt.no_policy_check
  /\ chain = <<"LCP", "CP", "K0">>

\* ---------------------------------------------------------------------
\* check_cert_policy on its own: one call with a certificate and a
\* configured policy file.

PolicyFileNames == DOMAIN PolicyFileText \cup {"", "missing"}

InitPolicy ==
  /\ opt \in [ no_chain_validation       : {FALSE},
               no_policy_check           : {FALSE},
               no_crl_check              : {FALSE},
               no_trusted_cert_crl_check : {FALSE},
               ignore_expiration         : {FALSE},
               auto_issuer_key_retrieve  : {FALSE},
               policy_file               : PolicyFileNames ]
  /\ ephem = <<>>
  /\ keydb_flags = {}
  /\ marktrusted_info = {}
  /\ no_more_questions = FALSE
  /\ cert \in CertNames /\ listmode \in BOOLEAN /\ flags = 0
  /\ use_ocsp = FALSE
  /\ pc = "idle" /\ rc = OK /\ depth = 0
  /\ subject_cert = NoCert /\ issuer_cert = NoCert
  /\ kh = [pos |-> 0, eph |-> FALSE, fault |-> 0]
  /\ any_expired = FALSE /\ any_revoked = FALSE /\ any_no_crl = FALSE
  /\ any_crl_too_old = FALSE /\ any_no_policy_match = FALSE
  /\ is_qualified = -1 /\ exptime = 0 /\ r_exptime = 0
  /\ is_root = FALSE /\ istrusted_rc = NOTFOUND
  /\ rootca_flags = [relax |-> FALSE] /\ chainlen = 0
  /\ userdata = [cert |-> UD0, subj |-> UD0, iss |-> UD0]
  /\ chain = <<>> /\ verified = {} /\ gate_run = {} /\ isvalid_calls = {}
  /\ isvalid_rc = "-" /\ marktrusted_rc = "-" /\ walk_finished = FALSE
  /\ calls = Calls0
  /\ ncalls = 0 /\ oracle = Oracle0(FALSE) /\ prev = Prev0
  /\ refs = Refs0 /\ keydb_broken = FALSE /\ regtp = Regtp0

\* certchain.c:204-334
CheckCertPolicy ==
  /\ pc = "idle"
  /\ pc' = "done"
  /\ rc' = check_cert_policy(cert)
  /\ calls' = Bump(calls, "policy", 1)
  /\ UNCHANGED <<procvars, argvars, flagvars, depth, subject_cert,
                 issuer_cert, kh, is_qualified, exptime, r_exptime, is_root,
                 istrusted_rc, rootca_flags, chainlen, userdata, chain,
                 verified, gate_run, isvalid_calls, isvalid_rc,
                 marktrusted_rc, walk_finished, sessionvars,
                 resvars>>

NextPolicy == CheckCertPolicy

SpecPolicy == InitPolicy /\ [][NextPolicy]_vars

\* The lines of the configured policy file; none if there is no file.
FileLines ==
  IF opt.policy_file \in DOMAIN PolicyFileText
    THEN PolicyFileText[opt.policy_file] ELSE <<>>

CertOids == { Cert(cert).policies[i][1] : i \in 1 .. Len(Cert(cert).policies) }

AnyCritical ==
  \E i \in 1 .. Len(Cert(cert).policies) : Cert(cert).policies[i][2] = "C"

\* The lines that allow an OID of the certificate, and those that cannot
\* be read.
MatchingLines == { k \in 1 .. Len(FileLines) : FileLines[k].oid \in CertOids }

BadLines == { k \in 1 .. Len(FileLines) : FileLines[k].bad # OK }

PolicyChecked ==
  pc = "done" /\ calls.policy = 1 /\ ~Cert(cert).badpolicies

C15_WitnessNoMatch ==
  /\ PolicyChecked
  /\ cert = "LP"
  /\ opt.policy_file = "parts"
  /\ rc = GPG_ERR_NO_POLICY_MATCH

\* An unreadable line before the line that allows the OID.
C15_WitnessBadLine ==
  /\ PolicyChecked
  /\ cert = "LPN"
  /\ opt.policy_file = "toolong"
  /\ rc = GPG_ERR_LINE_TOO_LONG

\* ---------------------------------------------------------------------
\* find_up on its own: the first call for a certificate that is not
\* self-issued (every caller takes the self-issued case first, as at
\* certchain.c:1274), then calls with find_next on the same handle.

\* How often find_up is called on one handle.
MaxFindUp == 3

\* The searches of the key database up to and including the one that fails.
MaxFault == 3

\* What the ephemeral store may hold when find_up is called.
EphemeralStores == { <<>>, <<"LS">>, <<"D">>, <<"LS", "D">> }

InitFindUp ==
  /\ opt \in [ no_chain_validation       : {FALSE},
               no_policy_check           : {FALSE},
               no_crl_check              : {FALSE},
               no_trusted_cert_crl_check : {FALSE},
               ignore_expiration         : {FALSE},
               auto_issuer_key_retrieve  : BOOLEAN,
               policy_file               : {"policies"} ]
  /\ ephem \in EphemeralStores
  /\ keydb_flags = {}
  /\ marktrusted_info = {}
  /\ no_more_questions = FALSE
  /\ cert \in { c \in CertNames :
                  Cert(c).issuer # "" /\ ~gpgsm_is_root_cert(c) }
  /\ listmode = FALSE /\ flags = 0 /\ use_ocsp = FALSE
  /\ pc = "idle" /\ rc = OK /\ depth = 0
  /\ subject_cert = cert /\ issuer_cert = NoCert
  /\ kh \in [pos : {0}, eph : BOOLEAN, fault : 0 .. MaxFault]
  /\ any_expired = FALSE /\ any_revoked = FALSE /\ any_no_crl = FALSE
  /\ any_crl_too_old = FALSE /\ any_no_policy_match = FALSE
  /\ is_qualified = -1 /\ exptime = 0 /\ r_exptime = 0
  /\ is_root = FALSE /\ istrusted_rc = NOTFOUND
  /\ rootca_flags = [relax |-> FALSE] /\ chainlen = 0
  /\ userdata = [cert |-> UD0, subj |-> UD0, iss |-> UD0]
  /\ chain = <<>> /\ verified = {} /\ gate_run = {} /\ isvalid_calls = {}
  /\ isvalid_rc = "-" /\ marktrusted_rc = "-" /\ walk_finished = FALSE
  /\ calls = Calls0
  /\ ncalls = 0 /\ oracle = Oracle0(FALSE) /\ prev = Prev0
  /\ refs = Refs0 /\ keydb_broken = FALSE /\ regtp = Regtp0

\* st is the handle after find_up; keydb_get_cert follows if it found one.
FindUpReturns(st) ==
  /\ rc' = st.rc
  /\ kh' = Handle(st)
  /\ ephem' = st.ephem
  /\ issuer_cert' = IF st.rc = OK THEN keydb_get_cert(st) ELSE NoCert
  /\ pc' = IF st.rc = OK THEN "found" ELSE "done"
  /\ calls' = Bump(calls, "find_up", 1)
  /\ UNCHANGED <<opt, keydb_flags, marktrusted_info, no_more_questions,
                 argvars, flagvars, depth, subject_cert, is_qualified,
                 exptime, r_exptime, is_root, istrusted_rc, rootca_flags,
                 chainlen, userdata, chain, verified, gate_run,
                 isvalid_calls, isvalid_rc, marktrusted_rc, walk_finished,
                 sessionvars,
                 resvars>>

\* certchain.c:450-554 with find_next = 0 on a handle that was reset.
FindUp ==
  /\ pc = "idle"
  /\ FindUpReturns(find_up(keydb_search_reset(St), subject_cert,
                           Cert(subject_cert).issuer, FALSE))

\* certchain.c:450-554 with find_next = 1 on the handle as it stands.
FindUpNext ==
  /\ pc = "found"
  /\ calls.find_up < MaxFindUp
  /\ FindUpReturns(find_up(St, subject_cert, Cert(subject_cert).issuer,
                           TRUE))

NextFindUp == FindUp \/ FindUpNext

SpecFindUp == InitFindUp /\ [][NextFindUp]_vars

\* C16: the certificate that keydb_get_cert returns after a successful
\* find_up is never the certificate find_up was given, whatever the stores
\* hold and whichever strategy found it.
C16_FindUpNeverReturnsInput ==
  (pc = "found" /\ calls.find_up > 0) => issuer_cert # subject_cert

\* find_up was given LS, found it in the ephemeral store by the issuer and
\* serial number of its authorityKeyIdentifier and returned it.
C16_ReturnsInput ==
  /\ pc = "found"
  /\ calls.find_up = 1
  /\ subject_cert = "LS"
  /\ issuer_cert = "LS"
  /\ rc = OK

\* The candidate find_up (.., 1) offers after a signature check of the
\* subject against issuer_cert failed: NoCert if it finds none.
NextCandidate(st) == IF st.rc = OK THEN keydb_get_cert(st) ELSE NoCert

\* What C17 says of a step from the signature check that gave sigrc, cand
\* being the candidate of find_up (.., 1).
SigStep(sigrc, cand) ==
  /\ subject_cert' = subject_cert
  /\ sigrc = OK =>
       /\ pc' = "gate"
       /\ issuer_cert' = issuer_cert
       /\ calls'.find_up = calls.find_up
  /\ (sigrc = GPG_ERR_BAD_SIGNATURE) =>
       calls'.find_up = Bump(calls, "find_up", 1).find_up
  /\ (sigrc = GPG_ERR_BAD_SIGNATURE /\ cand \notin {NoCert, issuer_cert}) =>
       /\ pc' = "sig"
       /\ issuer_cert' = cand
       /\ depth' = depth /\ chain' = chain
  /\ (sigrc = GPG_ERR_BAD_SIGNATURE /\ cand \in {NoCert, issuer_cert}) =>
       /\ pc' = "leave"
       /\ rc' = GPG_ERR_BAD_CERT_CHAIN
  /\ sigrc \notin {OK, GPG_ERR_BAD_SIGNATURE} =>
       /\ pc' = "leave"
       /\ rc' = GPG_ERR_BAD_CERT_CHAIN
       /\ calls'.find_up = calls.find_up

C17_WitnessSame ==
  /\ pc = "leave"
  /\ chain = <<"LS">>
  /\ issuer_cert = "CA1"
  /\ calls.sig = 1
  /\ calls.find_up = 2
  /\ rc = GPG_ERR_BAD_CERT_CHAIN

\* No further candidate.
C17_WitnessNone ==
  /\ pc = "done"
  /\ chain = <<"LF">>
  /\ calls.find_up = 2
  /\ rc = GPG_ERR_BAD_CERT_CHAIN

\* A signature error of another kind.
C17_WitnessOtherError ==
  /\ pc = "done"
  /\ chain = <<"LG">>
  /\ calls.find_up = 1
  /\ rc = GPG_ERR_BAD_CERT_CHAIN

\* The self-issued certificate at the end of the chain does not verify
\* against its own key.
BadSelfSignature(c) ==
  gpgsm_is_root_cert(c) /\ gpgsm_check_cert_sig(c, c) # OK

\* C18: a self-issued certificate that the trust agent does not report as
\* trusted and whose self-signature does not verify ends the call with
\* BAD_CERT at depth 0 and with BAD_CERT_CHAIN at a greater depth, and the
\* user is not asked about it; the self-signature of a root the trust agent
\* reports as trusted is not checked.
C18_BadSelfSignature ==
  /\ [][ pc = "root" =>
           /\ (istrusted_rc # OK /\ BadSelfSignature(subject_cert)) =>
                /\ pc' = "leave"
                /\ depth = 0 => rc' = GPG_ERR_BAD_CERT
                /\ depth > 0 => rc' = GPG_ERR_BAD_CERT_CHAIN
                /\ calls'.sig = calls.sig + 1
                /\ calls'.marktrusted = calls.marktrusted
                /\ marktrusted_rc' = marktrusted_rc
                /\ marktrusted_info' = marktrusted_info
                /\ no_more_questions' = no_more_questions
           /\ istrusted_rc # OK => calls'.sig = calls.sig + 1
           /\ istrusted_rc = OK => calls'.sig = calls.sig
       ]_vars
  /\ [][ pc = "leave" => rc' = rc ]_vars
  /\ [](\A e \in verified : e[1] # e[2])
  /\ []((pc = "done" /\ chain # <<>> /\ BadSelfSignature(Last(chain))
           /\ istrusted_rc # OK /\ rc \notin { GPG_ERR_BAD_CERT,
                                               GPG_ERR_BAD_CERT_CHAIN })
          => ~ValidityPasses(Last(chain))
               \/ HasUnknownCritical(Last(chain))
               \/ rc \in PolicyErrors)

\* The leaf itself is the self-issued certificate.
C18_Witness ==
  /\ pc = "done"
  /\ chain = <<"SB">>
  /\ istrusted_rc = GPG_ERR_NOT_TRUSTED
  /\ rc = GPG_ERR_BAD_CERT
  /\ calls.sig = 1
  /\ calls.marktrusted = 0

\* It is reached from the leaf LSB.
C18_WitnessChain ==
  /\ pc = "done"
  /\ chain = <<"LSB", "SB">>
  /\ istrusted_rc = GPG_ERR_NOT_TRUSTED
  /\ rc = GPG_ERR_BAD_CERT_CHAIN
  /\ calls.sig = 2
  /\ calls.marktrusted = 0

\* The trust agent reports SB as trusted: its signature on itself is not
\* checked and the chain is accepted.
C18_WitnessTrusted ==
  /\ Accepted
  /\ chain = <<"LSB", "SB">>
  /\ istrusted_rc = OK
  /\ calls.sig = 1

\* Every edge of the chain had its signature verified.
EdgesVerified ==
  \A i \in 1 .. (Len(chain) - 1) : <<chain[i], chain[i + 1]>> \in verified

\* C19: with no_chain_validation and list mode off the call returns success
\* at once: it makes no key-database handle, calls no collaborator, changes
\* no user data of a certificate and nothing process-wide, and the
\* expiration time it returns is empty; in list mode the option changes
\* nothing and the walk is made.
C19_BypassChangesNothing ==
  /\ [][ (pc = "idle" /\ opt.no_chain_validation /\ ~listmode') =>
           /\ pc' = "done"
           /\ rc' = OK
           /\ r_exptime' = 0
           /\ UNCHANGED <<procvars, kh, userdata, subject_cert, issuer_cert,
                          chain, verified, gate_run, isvalid_calls,
                          isvalid_rc, marktrusted_rc, calls, flagvars,
                          is_qualified>>
       ]_vars
  /\ []((pc # "idle" /\ opt.no_chain_validation /\ ~listmode) =>
          /\ pc = "done" /\ rc = OK /\ r_exptime = 0
          /\ calls = Calls0
          /\ kh = [pos |-> 0, eph |-> FALSE, fault |-> 0]
          /\ ephem = <<>> /\ keydb_flags = {} /\ marktrusted_info = {}
          /\ ~no_more_questions
          /\ userdata = [cert |-> UD0, subj |-> UD0, iss |-> UD0]
          /\ chain = <<>> /\ verified = {} /\ gate_run = {})
  /\ []((pc # "idle" /\ listmode) =>
          /\ chain # <<>> /\ chain[1] = cert
          /\ (pc = "done" /\ rc = OK) =>
               /\ walk_finished
               /\ gpgsm_is_root_cert(Last(chain))
               /\ EdgesVerified)

\* The bypass: LX has expired and LM has no issuer in any store.
C19_Witness ==
  /\ pc = "done"
  /\ opt.no_chain_validation /\ ~listmode
  /\ ~opt.ignore_expiration
  /\ cert \in {"LX", "LM"}
  /\ rc = OK
  /\ calls = Calls0

\* The same option in list mode: the walk is made and LX is found expired.
C19_WitnessListMode ==
  /\ pc = "done"
  /\ opt.no_chain_validation /\ listmode
  /\ chain = <<"LX", "K0">>
  /\ rc = GPG_ERR_CERT_EXPIRED
  /\ calls.sig = 1

\* ---------------------------------------------------------------------
\* gpgsm_basic_cert_check: one call with a certificate.

\* A result that hands on the error of the signature check.
basic_check_sig_unmapped(sigrc) == sigrc

\* certchain.c:1277-1286 and 1318-1328: the result after a signature check
\* that gave sigrc.
basic_check_sig(sigrc) == IF sigrc # OK THEN GPG_ERR_BAD_CERT ELSE OK

\* certchain.c:1294-1329, st being the handle after find_up.
basic_check_found(c, st) ==
  IF st.rc # OK
    THEN [rc |-> GPG_ERR_MISSING_CERT, issuer |-> NoCert,
          ephem |-> st.ephem, nsig |-> 0, nfind |-> 1]
    ELSE [rc |-> basic_check_sig(
                   gpgsm_check_cert_sig(keydb_get_cert(st), c)),
          issuer |-> keydb_get_cert(st), ephem |-> st.ephem,
          nsig |-> 1, nfind |-> 1]

\* certchain.c:1243-1340: the result, the certificate the signature was
\* checked against, the ephemeral store afterwards and the calls made.
gpgsm_basic_cert_check(c, store) ==
  IF opt.no_chain_validation
    THEN [rc |-> OK, issuer |-> NoCert, ephem |-> store, nsig |-> 0,
          nfind |-> 0]
  ELSE IF Cert(c).issuer = ""
    THEN [rc |-> GPG_ERR_BAD_CERT, issuer |-> NoCert, ephem |-> store,
          nsig |-> 0, nfind |-> 0]
  ELSE IF Cert(c).subject # "" /\ Cert(c).issuer = Cert(c).subject
    THEN [rc |-> basic_check_sig(gpgsm_check_cert_sig(c, c)),
          issuer |-> c, ephem |-> store, nsig |-> 1, nfind |-> 0]
  ELSE basic_check_found(
         c, find_up(keydb_search_reset(keydb_new(store)), c,
                    Cert(c).issuer, FALSE))

InitBasic ==
  /\ opt \in Options
  /\ ephem \in EphemeralStores
  /\ keydb_flags = {}
  /\ marktrusted_info = {}
  /\ no_more_questions = FALSE
  /\ cert \in CertNames
  /\ listmode = FALSE /\ flags = 0 /\ use_ocsp = FALSE
  /\ pc = "idle" /\ rc = OK /\ depth = 0
  /\ subject_cert = NoCert /\ issuer_cert = NoCert
  /\ kh = [pos |-> 0, eph |-> FALSE, fault |-> 0]
  /\ any_expired = FALSE /\ any_revoked = FALSE /\ any_no_crl = FALSE
  /\ any_crl_too_old = FALSE /\ any_no_policy_match = FALSE
  /\ is_qualified = -1 /\ exptime = 0 /\ r_exptime = 0
  /\ is_root = FALSE /\ istrusted_rc = NOTFOUND
  /\ rootca_flags = [relax |-> FALSE] /\ chainlen = 0
  /\ userdata = [cert |-> UD0, subj |-> UD0, iss |-> UD0]
  /\ chain = <<>> /\ verified = {} /\ gate_run = {} /\ isvalid_calls = {}
  /\ isvalid_rc = "-" /\ marktrusted_rc = "-" /\ walk_finished = FALSE
  /\ calls = Calls0
  /\ ncalls = 0 /\ oracle = Oracle0(FALSE) /\ prev = Prev0
  /\ refs = Refs0 /\ keydb_broken = FALSE /\ regtp = Regtp0

\* certchain.c:1257, 1308-1309 and 1337-1338: the references after a call
\* that made a handle if handle and got the issuer's certificate if got.
basic_check_refs(handle, got) ==
  IF ~handle THEN refs
  ELSE LET h == RefTake(refs, "kh")
           i == IF got THEN RefTake(h, "issuer") ELSE h
       IN  RefRelease(RefRelease(i, "kh", TRUE), "issuer", got)

\* r is what gpgsm_basic_cert_check gave, but for a failure of
\* keydb_get_cert (certchain.c:1309-1315); the handle and the issuer's
\* certificate are released at leave.
BasicCertCheckReturns(r) ==
  /\ ephem' = r.ephem
  /\ pc' = "done"
  /\ \E g \in (IF r.nfind = 1 /\ r.nsig = 1 THEN GetCertResults ELSE {OK}) :
       IF g # OK
         THEN /\ rc' = GPG_ERR_GENERAL
              /\ verified' = {}
              /\ calls' = Bump(calls, "find_up", r.nfind)
              /\ refs' = basic_check_refs(TRUE, FALSE)
         ELSE /\ rc' = r.rc
              /\ verified' = IF r.rc = OK /\ r.nsig = 1
                               THEN {<<cert, r.issuer>>} ELSE {}
              /\ calls' = Bump(Bump(calls, "sig", r.nsig), "find_up", r.nfind)
              /\ refs' = basic_check_refs(~opt.no_chain_validation,
                                          r.nfind = 1 /\ r.nsig = 1)
  /\ UNCHANGED <<opt, keydb_flags, marktrusted_info, no_more_questions,
                 argvars, flagvars, depth, subject_cert, issuer_cert, kh,
                 is_qualified, exptime, r_exptime, is_root, istrusted_rc,
                 rootca_flags, chainlen, userdata, chain, gate_run,
                 isvalid_calls, isvalid_rc, marktrusted_rc, walk_finished,
                 sessionvars,
                 keydb_broken, regtp>>

\* certchain.c:1243-1340
BasicCertCheck ==
  /\ pc = "idle"
  /\ BasicCertCheckReturns(gpgsm_basic_cert_check(cert, ephem))

NextBasic == BasicCertCheck

SpecBasic == InitBasic /\ [][NextBasic]_vars

\* c was signed with the key of the certificate i.
SignedBy(c, i) == Cert(c).hashalgo /\ Cert(c).sigkey = Cert(i).key

\* What C20 says of a call for cert that started with the ephemeral store
\* store, st being what find_up gives for it on a new handle.
BasicResult(store, st) ==
  /\ rc' = IF Cert(cert).issuer = "" THEN GPG_ERR_BAD_CERT
           ELSE IF gpgsm_is_root_cert(cert)
             THEN IF SignedBy(cert, cert) THEN OK ELSE GPG_ERR_BAD_CERT
           ELSE IF st.rc # OK THEN GPG_ERR_MISSING_CERT
           ELSE IF SignedBy(cert, keydb_get_cert(st)) THEN OK
           ELSE GPG_ERR_BAD_CERT
  /\ calls'.find_up = IF gpgsm_is_root_cert(cert) \/ Cert(cert).issuer = ""
                        THEN 0 ELSE 1
  /\ calls'.sig <= 1

\* C20: with chain validation enabled gpgsm_basic_cert_check returns success
\* iff the certificate is self-issued and verifies against its own key, or
\* is not self-issued, find_up resolves an issuer and the certificate
\* verifies against it; a failed signature gives BAD_CERT and an issuer
\* that is not resolved MISSING_CERT; validity, policies, CA authority and
\* revocation are not looked at, and neither the trust agent nor the
\* revocation responder is called.
C20_BasicCertCheck ==
  /\ [][ (pc = "idle" /\ ~opt.no_chain_validation) =>
           BasicResult(ephem, find_up(keydb_new(ephem), cert,
                                      Cert(cert).issuer, FALSE)) ]_vars
  /\ [](pc = "done" =>
          /\ calls.istrusted = 0 /\ calls.marktrusted = 0
          /\ calls.isvalid = 0 /\ calls.qualified = 0
          /\ calls.usage = 0 /\ calls.policy = 0
          /\ isvalid_calls = {} /\ gate_run = {} /\ keydb_flags = {}
          /\ marktrusted_info = {} /\ ~no_more_questions
          /\ ~any_expired /\ ~any_revoked /\ ~any_no_crl
          /\ ~any_crl_too_old /\ ~any_no_policy_match
          /\ userdata = [cert |-> UD0, subj |-> UD0, iss |-> UD0]
          /\ rc \in {OK, GPG_ERR_BAD_CERT, GPG_ERR_MISSING_CERT}
          /\ \A e \in verified : e[1] = cert /\ SignedBy(cert, e[2]))
  /\ [](\A c \in {"LX", "LY", "LB", "LU", "LP", "LPE", "LN", "LCU"} :
          (pc = "done" /\ cert = c) => rc = OK)

\* An expired certificate whose issuer K0 signed it.
C20_Witness ==
  /\ pc = "done"
  /\ ~opt.no_chain_validation
  /\ cert = "LX"
  /\ verified = { <<"LX", "K0">> }
  /\ rc = OK

\* LN is issued by N, which is no CA.
C20_WitnessNoCa ==
  /\ pc = "done"
  /\ ~opt.no_chain_validation
  /\ cert = "LN"
  /\ verified = { <<"LN", "N">> }
  /\ rc = OK

C20_WitnessSelfSigned ==
  /\ pc = "done"
  /\ ~opt.no_chain_validation
  /\ cert = "K0"
  /\ verified = { <<"K0", "K0">> }
  /\ calls.find_up = 0
  /\ rc = OK

\* L was checked against CA1 only.
C20_WitnessBadSignature ==
  /\ pc = "done"
  /\ ~opt.no_chain_validation
  /\ cert = "L"
  /\ calls.sig = 1 /\ calls.find_up = 1
  /\ rc = GPG_ERR_BAD_CERT

C20_WitnessMissing ==
  /\ pc = "done"
  /\ ~opt.no_chain_validation
  /\ cert = "LM"
  /\ calls.sig = 0
  /\ rc = GPG_ERR_MISSING_CERT

\* ---------------------------------------------------------------------
\* C23: the ephemeral flag of the key-database handle has, when find_up
\* returns, the value it had when find_up was called, whether the handle
\* came in ephemeral mode or not, with and without find_next, whether an
\* issuer was found, none was found or a search failed; the same holds of
\* find_up_external called on the handle as it stands, with the key
\* identifier of the subject and without one.
C23_EphemeralFlagRestored ==
  /\ [][ calls'.find_up = calls.find_up + 1 => kh'.eph = kh.eph ]_vars
  /\ [](/\ find_up_external(St, Cert(subject_cert).issuer,
                             Cert(subject_cert).aki_keyid).eph = kh.eph
        /\ find_up_external(St, Cert(subject_cert).issuer, "").eph = kh.eph)

\* The issuer of LD was found in the ephemeral store by a handle that was
\* not in ephemeral mode and is not in ephemeral mode afterwards.
C23_Witness ==
  /\ pc = "found"
  /\ calls.find_up = 1
  /\ subject_cert = "LD"
  /\ issuer_cert = "D"
  /\ ~kh.eph

\* The handle came in ephemeral mode and is left in it, nothing found.
C23_WitnessEphemeral ==
  /\ pc = "done"
  /\ calls.find_up = 1
  /\ rc = NOTFOUND
  /\ kh.eph

\* The external lookup stored a certificate and searched the ephemeral
\* store; the handle is not in ephemeral mode afterwards.
C23_WitnessExternal ==
  /\ pc = "found"
  /\ calls.find_up = 1
  /\ opt.auto_issuer_key_retrieve
  /\ subject_cert = "LD"
  /\ issuer_cert = "D"
  /\ ephem = <<"D">>
  /\ ~kh.eph

\* ---------------------------------------------------------------------
\* C28: a search of the key database that fails during find_up with an
\* error other than not-found ends find_up, which returns that error; no
\* later strategy runs after it.
C28_ErrorEndsFindUp ==
  [][ (calls'.find_up = calls.find_up + 1 /\ kh.fault > 0 /\ kh'.fault = 0)
        => rc' = GPG_ERR_EIO ]_vars

\* The search by the issuer and serial number of the authorityKeyIdentifier
\* of LS failed with an input/output error; find_up went on to the search
\* by the subject name and returned CA1 as found, although the ephemeral
\* store holds the certificate the failed search was for.
C28_ErrorFollowedBySubjectSearch ==
  /\ pc = "found"
  /\ calls.find_up = 1
  /\ subject_cert = "LS"
  /\ ephem = <<"LS">>
  /\ ~kh.eph
  /\ kh.fault = 0
  /\ issuer_cert = "CA1"
  /\ rc = OK

\* ---------------------------------------------------------------------
\* C29: a call of find_up with find_next set stores nothing in the
\* ephemeral store, leaves the handle in the mode it came in and does not
\* reset the cursor: the certificate it finds lies behind the certificate
\* the cursor was on, and in the main store unless the handle came in
\* ephemeral mode.
C29_FindNextContinues ==
  [][ (pc = "found" /\ calls'.find_up = calls.find_up + 1) =>
        /\ ephem' = ephem
        /\ kh'.eph = kh.eph
        /\ rc' = OK => kh'.pos > kh.pos
        /\ (rc' = OK /\ ~kh.eph) => kh'.pos <= Len(KeyDB) ]_vars

\* find_up gave CA1 for LS; called again with find_next set it reset the
\* cursor after the search by issuer and serial number had found nothing
\* and gave CA1 again, the first certificate with the name of the issuer.
C29_FindNextRestarts ==
  /\ pc = "found"
  /\ calls.find_up = 2
  /\ subject_cert = "LS"
  /\ ephem = <<>>
  /\ ~kh.eph
  /\ kh.fault = 0
  /\ issuer_cert = "CA1"
  /\ rc = OK

\* ---------------------------------------------------------------------
\* gpgsm_validate_chain runs on the caller's thread without suspension
\* (spec section 5): a call that has a step to take takes it.  The options
\* are those of a default configuration, with and without the bypass.
InitLive ==
  /\ Init
  /\ ~opt.no_policy_check
  /\ ~opt.no_crl_check
  /\ ~opt.no_trusted_cert_crl_check
  /\ ~opt.ignore_expiration
  /\ ~opt.auto_issuer_key_retrieve

\* Weak fairness of Next.  A step of Next is possible exactly where the
\* call has not returned, so the condition is written with pc # "done" in
\* the place of ENABLED <<Next>>_vars: a behaviour either reaches "done"
\* again and again or takes steps of Next again and again.  The fairness
\* of the last step is stated as such.
Fairness ==
  /\ ([]<>(pc = "done")) \/ ([]<><<Next>>_vars)
  /\ WF_vars(Leave)

SpecLive == InitLive /\ [][Next]_vars /\ Fairness

\* C24: every call of gpgsm_validate_chain returns: from every place a
\* call has reached, the place where it has returned is reached, whatever
\* the certificates of the key database are.
C24_EveryCallReturns == (pc # "idle") ~> (pc = "done")

\* The signature of LW was checked six times in one hop although only two
\* certificates carry the name of its issuer: find_up with find_next set
\* gives CA1 after CA2 and CA2 after CA1 without end.
C24_RetryWithoutEnd ==
  /\ pc = "sig"
  /\ chain = <<"LW">>
  /\ depth = 1
  /\ issuer_cert = "CA2"
  /\ calls.sig = 6
  /\ calls.find_up = 7
  /\ verified = {}

\* ---------------------------------------------------------------------
\* C27: in every call, list mode or not, the step that follows the CA gate
\* evaluates the key usage of the issuer; an issuer whose key usage does
\* not permit signing certificates ends the walk with the error of the
\* predicate, and only an issuer that passed goes on to the revocation
\* gate.
C27_KeyUsageAlwaysChecked ==
  [][ pc = "usage" =>
        /\ calls'.usage = calls.usage + 1
        /\ gpgsm_cert_use_cert_p(issuer_cert) # OK =>
             (pc' = "leave" /\ rc' = gpgsm_cert_use_cert_p(issuer_cert))
        /\ gpgsm_cert_use_cert_p(issuer_cert) = OK => pc' = "rev" ]_vars

\* In list mode the walk from LCU went on to the revocation gate with the
\* issuer CU, whose key usage does not permit signing certificates; the
\* predicate was not evaluated.
C27_SkippedInListMode ==
  /\ pc = "rev"
  /\ listmode
  /\ chain = <<"LCU">>
  /\ issuer_cert = "CU"
  /\ gpgsm_cert_use_cert_p("CU") = GPG_ERR_WRONG_KEY_USAGE
  /\ calls.usage = 0
  /\ rc = OK

(***************************************************************************)
(* A process that calls gpgsm_validate_chain more than once.               *)
(*                                                                         *)
(* What outlives a call: the options, the key database with its ephemeral  *)
(* store, the list of certificates the user was asked about                *)
(* (marktrusted_info), the latch no_more_questions, and the user data of   *)
(* a certificate object the caller passes again.  The locals start anew.   *)
(***************************************************************************)

\* The number of calls of a process that are followed.
MaxCalls == 2

\* The certificates the callers of these processes pass: roots (K0, Q),
\* leaves right below a root (LX expired, LRX below the non-CA root RX),
\* leaves two hops below (L, QL), a leaf whose issuer only the directory
\* holds (LD) and one whose issuer nobody holds (LM).  The callers do not
\* ask for OCSP.
SessionLeaves == { KName(0), "Q", "LX", "LRX", "L", "QL", "LD", "LM" }

InitSession ==
  /\ opt \in [ no_chain_validation       : {FALSE},
               no_policy_check           : {TRUE},
               no_crl_check              : {FALSE},
               no_trusted_cert_crl_check : {TRUE},
               ignore_expiration         : BOOLEAN,
               auto_issuer_key_retrieve  : {TRUE},
               policy_file               : {"policies"} ]
  /\ ephem = <<>>
  /\ keydb_flags = {}
  /\ marktrusted_info = {}
  /\ no_more_questions = FALSE
  /\ cert = NoCert /\ listmode = FALSE /\ flags = 0 /\ use_ocsp = FALSE
  /\ pc = "idle" /\ rc = OK /\ depth = 0
  /\ subject_cert = NoCert /\ issuer_cert = NoCert
  /\ kh = [pos |-> 0, eph |-> FALSE, fault |-> 0]
  /\ any_expired = FALSE /\ any_revoked = FALSE /\ any_no_crl = FALSE
  /\ any_crl_too_old = FALSE /\ any_no_policy_match = FALSE
  /\ is_qualified = -1 /\ exptime = 0 /\ r_exptime = 0
  /\ is_root = FALSE /\ istrusted_rc = NOTFOUND
  /\ rootca_flags = [relax |-> FALSE] /\ chainlen = 0
  /\ userdata = [cert |-> UD0, subj |-> UD0, iss |-> UD0]
  /\ chain = <<>> /\ verified = {} /\ gate_run = {} /\ isvalid_calls = {}
  /\ isvalid_rc = "-" /\ marktrusted_rc = "-" /\ walk_finished = FALSE
  /\ calls = Calls0
  /\ ncalls = 0 /\ oracle \in {Oracle0(TRUE), Oracle0(FALSE)} /\ prev = Prev0
  /\ refs = Refs0 /\ keydb_broken = FALSE /\ regtp = Regtp0

\* certchain.c:699-745, as the first call of the process or as a later one.
\* A later call is given the flags and the responder choice of the call
\* before; same says that it is given the same certificate object, which
\* still carries its user data, and not a new object of that certificate.
SessionCall ==
  /\ pc \in {"idle", "done"}
  /\ ncalls < MaxCalls
  /\ \E c \in SessionLeaves, lm \in BOOLEAN, f \in {0, 1}, ocsp \in {FALSE},
        same \in BOOLEAN :
       /\ ncalls > 0 => (f = flags /\ ocsp = use_ocsp)
       /\ same => (ncalls > 0 /\ c = cert)
       /\ cert' = c /\ listmode' = lm /\ flags' = f /\ use_ocsp' = ocsp
       /\ prev' = [ cert |-> cert, listmode |-> listmode, flags |-> flags,
                    use_ocsp |-> use_ocsp, rc |-> rc,
                    marktrusted_rc |-> marktrusted_rc,
                    is_qualified |-> is_qualified, same_handle |-> same ]
       /\ userdata' = [ cert |-> IF same THEN userdata.cert ELSE UD0,
                        subj |-> UD0, iss |-> UD0 ]
       /\ r_exptime' = 0 /\ exptime' = 0
       /\ kh' = [pos |-> 0, eph |-> FALSE, fault |-> 0]
       /\ IF bypass(lm)
            THEN /\ pc' = "done" /\ rc' = OK
                 /\ subject_cert' = NoCert /\ chain' = <<>>
                 /\ refs' = refs
            ELSE /\ pc' = "node" /\ rc' = OK
                 /\ subject_cert' = c /\ chain' = <<c>>
                 /\ refs' = RefTake(RefTake(refs, "kh"), "leaf")
  /\ ncalls' = ncalls + 1
  /\ depth' = 0 /\ issuer_cert' = NoCert
  /\ any_expired' = FALSE /\ any_revoked' = FALSE /\ any_no_crl' = FALSE
  /\ any_crl_too_old' = FALSE /\ any_no_policy_match' = FALSE
  /\ is_qualified' = -1
  /\ is_root' = FALSE /\ istrusted_rc' = NOTFOUND
  /\ rootca_flags' = [relax |-> FALSE] /\ chainlen' = 0
  /\ verified' = {} /\ gate_run' = {} /\ isvalid_calls' = {}
  /\ isvalid_rc' = "-" /\ marktrusted_rc' = "-" /\ walk_finished' = FALSE
  /\ calls' = Calls0
  /\ UNCHANGED <<procvars, oracle, keydb_broken, regtp>>

NextSession ==
  \/ SessionCall
  \/ NodeChecks
  \/ Root
  \/ RootRev
  \/ Hop
  \/ Sig
  \/ Gate
  \/ Usage
  \/ Rev
  \/ Advance
  \/ Verdict
  \/ Leave

SpecSession == InitSession /\ [][NextSession]_vars

\* The error that ends the step at the root before the trust decision: the
\* self-signature (checked unless the root is trusted) or the CA gate
\* (run unless the relax flag is set); OK if there is none.
RootGateError ==
  IF istrusted_rc # OK
       /\ gpgsm_check_cert_sig(subject_cert, subject_cert) # OK
    THEN bad_self_signature
  ELSE IF ~rootca_flags.relax
    THEN allowed_ca(subject_cert, SubjUD.regtp, ephem).rc
  ELSE OK

\* C26: the latch no_more_questions is one-way.  Once it is set it stays set
\* through every later call and no step calls marktrusted any more; an
\* untrusted root reached with the latch set ends the call with
\* GPG_ERR_NOT_TRUSTED (unless its self-signature or its CA gate failed
\* first).  A marktrusted call sets the latch exactly if it returned
\* GPG_ERR_NOT_SUPPORTED or GPG_ERR_CANCELED; any result other than success
\* leaves GPG_ERR_NOT_TRUSTED as the error of the call.
C26_LatchIsOneWay ==
  /\ [][ no_more_questions =>
           /\ no_more_questions'
           /\ calls'.marktrusted <= calls.marktrusted ]_vars
  /\ [][ calls'.marktrusted = calls.marktrusted + 1 =>
           /\ no_more_questions' =
                (marktrusted_rc' \in {GPG_ERR_NOT_SUPPORTED, GPG_ERR_CANCELED})
           /\ marktrusted_rc' # OK =>
                (rc' = GPG_ERR_NOT_TRUSTED /\ pc' = "leave") ]_vars
  /\ [][ (pc = "root" /\ no_more_questions
            /\ istrusted_rc = GPG_ERR_NOT_TRUSTED) =>
           /\ pc' = "leave"
           /\ rc' = IF RootGateError # OK THEN RootGateError
                                         ELSE GPG_ERR_NOT_TRUSTED ]_vars
  /\ [][ pc = "leave" => rc' = rc ]_vars

\* The user cancelled the question of the first call; the second call
\* reached an untrusted root it had not asked about, did not ask and
\* returned GPG_ERR_NOT_TRUSTED.
C26_LatchedSecondCall ==
  /\ ncalls = 2 /\ pc = "done"
  /\ prev.marktrusted_rc = GPG_ERR_CANCELED
  /\ no_more_questions
  /\ istrusted_rc = GPG_ERR_NOT_TRUSTED /\ ~any_expired
  /\ chain[Len(chain)] \notin marktrusted_info
  /\ calls.marktrusted = 0
  /\ rc = GPG_ERR_NOT_TRUSTED

\* The question failed in another way: the latch is not set and the call
\* returned GPG_ERR_NOT_TRUSTED.
C26_OtherErrorNoLatch ==
  /\ pc = "done"
  /\ marktrusted_rc = GPG_ERR_OTHER
  /\ ~no_more_questions
  /\ rc = GPG_ERR_NOT_TRUSTED

\* A call has returned that was given the certificate, the list mode, the
\* flags and the responder choice of the call before it, in a process whose
\* collaborators give the same answer to the same question.  Nothing but
\* the calls themselves writes to the key database.
SecondRunReturned ==
  /\ ncalls >= 2 /\ pc = "done"
  /\ oracle.fixed
  /\ cert = prev.cert /\ listmode = prev.listmode
  /\ flags = prev.flags /\ use_ocsp = prev.use_ocsp

\* C21 as claimed: the second of two such runs returns what the first
\* returned.
C21_SameVerdictTwice == SecondRunReturned => rc = prev.rc

\* C21: the second of two such runs returns what the first returned,
\* unless the runs are in list mode and the user answered the question of
\* the first run about the root with success; the second run then finds the
\* root in the list of those asked about, does not ask and returns
\* GPG_ERR_NOT_TRUSTED.
C21_SameVerdictUnlessAcceptedInListMode ==
  SecondRunReturned =>
    IF listmode /\ prev.marktrusted_rc = OK
      THEN rc = GPG_ERR_NOT_TRUSTED /\ calls.marktrusted = 0
      ELSE rc = prev.rc

\* Two runs in normal mode in which the user was asked, and two runs in
\* list mode of which the first asked and the user accepted.
C21_AskedTwiceSameVerdict ==
  /\ SecondRunReturned /\ ~listmode
  /\ prev.marktrusted_rc = OK /\ marktrusted_rc = OK
  /\ rc = prev.rc

C21_AcceptedThenNotTrusted ==
  /\ SecondRunReturned /\ listmode
  /\ prev.marktrusted_rc = OK /\ prev.rc = OK
  /\ rc = GPG_ERR_NOT_TRUSTED

\* C25: at a root reported GPG_ERR_NOT_TRUSTED whose self-signature and CA
\* gate are in order, with the latch unset, marktrusted is called exactly
\* if no certificate of the chain was found expired and the root is not in
\* the list of those the user was asked about, in both modes; so a run
\* that reaches a root asked about in an earlier run does not ask again.
C25_AskedOncePerRoot ==
  [][ (pc = "root" /\ istrusted_rc = GPG_ERR_NOT_TRUSTED
         /\ RootGateError = OK /\ ~no_more_questions) =>
        ((calls'.marktrusted = calls.marktrusted + 1)
           <=> (~any_expired /\ subject_cert \notin marktrusted_info)) ]_vars

\* The second run, in normal mode, has reached the root the first run
\* asked about and has asked again.
C25_AskedAgainInNormalMode ==
  /\ ncalls = 2 /\ pc = "done" /\ ~listmode
  /\ cert = prev.cert
  /\ prev.marktrusted_rc \in {OK, GPG_ERR_OTHER}
  /\ chain[Len(chain)] \in marktrusted_info
  /\ calls.marktrusted = 1

\* The lookups in the list of qualified roots that the CA gate of the root
\* makes for a certificate without basicConstraints (get_regtp_ca_info).
RootRegtpLookups ==
  IF rootca_flags.relax THEN 0
  ELSE allowed_ca(subject_cert, SubjUD.regtp, ephem).nqual

\* C30 as claimed: a call on a certificate object that was passed before
\* does not consult the list of qualified roots and sets the flag to the
\* value stored on the object; the value stored on exit is 0 or 1 as the
\* call classified.
C30_SecondCallNeverConsults ==
  /\ []((ncalls >= 2 /\ prev.same_handle) => calls.qualified = 0)
  /\ [][ (pc = "root" /\ RootGateError = OK
            /\ ncalls >= 2 /\ prev.same_handle) =>
           is_qualified' = userdata.cert.is_qualified ]_vars
  /\ [][ (pc = "leave" /\ is_qualified # -1) =>
           userdata'.cert.is_qualified = IF is_qualified # 0 THEN 1 ELSE 0
       ]_vars

\* C30: if the call before on the same certificate object classified the
\* root, the object carries that value as 0 or 1 throughout the next call;
\* a call that reaches the trust decision with a value on the object takes
\* it and does not consult the list of qualified roots for the flag, and a
\* call that finds none consults it once.  The lookups of the CA gate for
\* certificates without basicConstraints are made in either case.  The
\* value stored on exit is 0 or 1 as the call classified, and nothing is
\* stored by a call that did not classify.
C30_CachedFlagIsUsed ==
  /\ []((ncalls >= 2 /\ prev.same_handle /\ prev.is_qualified # -1) =>
          userdata.cert.is_qualified = IF prev.is_qualified # 0 THEN 1 ELSE 0)
  /\ [][ (pc = "root" /\ RootGateError = OK) =>
           IF userdata.cert.is_qualified # -1
             THEN /\ is_qualified' = userdata.cert.is_qualified
                  /\ calls'.qualified =
                       Bump(calls, "qualified", RootRegtpLookups).qualified
             ELSE /\ is_qualified' =
                       qualified_flag_of(userdata,
                          gpgsm_is_in_qualified_list(subject_cert))
                  /\ calls'.qualified =
                       Bump(calls, "qualified",
                            RootRegtpLookups + 1).qualified ]_vars
  /\ [][ pc = "leave" =>
           userdata'.cert.is_qualified =
             IF is_qualified = -1 THEN userdata.cert.is_qualified
             ELSE IF is_qualified # 0 THEN 1 ELSE 0 ]_vars

\* A second call on the same object has taken the flag the first call
\* stored and has returned without a lookup in the list.
C30_FlagTakenFromLeaf ==
  /\ ncalls = 2 /\ pc = "done" /\ prev.same_handle
  /\ prev.is_qualified = 1 /\ is_qualified = 1
  /\ userdata.cert.is_qualified = 1
  /\ calls.qualified = 0

\* The first call ended before the root; the second call on the same object
\* consulted the list.
C30_NothingStoredByFirstCall ==
  /\ ncalls = 2 /\ pc = "done" /\ prev.same_handle
  /\ prev.is_qualified = -1
  /\ is_qualified # -1 /\ calls.qualified > 0

\* The first call stored the flag; the second call on the same object took
\* it, but its CA gate consulted the list for a certificate without
\* basicConstraints.
C30_ListConsultedByCAGate ==
  /\ ncalls = 2 /\ pc = "done" /\ prev.same_handle
  /\ prev.is_qualified # -1 /\ is_qualified = prev.is_qualified
  /\ calls.qualified > 0

(***************************************************************************)
(* References and handles, in a process whose key database may fail to     *)
(* deliver a certificate it has found.                                     *)
(***************************************************************************)

InitRefs ==
  /\ opt \in [ no_chain_validation       : BOOLEAN,
               no_policy_check           : {TRUE},
               no_crl_check              : {TRUE},
               no_trusted_cert_crl_check : {TRUE},
               ignore_expiration         : BOOLEAN,
               auto_issuer_key_retrieve  : BOOLEAN,
               policy_file               : {"policies"} ]
  /\ ephem = <<>>
  /\ keydb_flags = {}
  /\ marktrusted_info = {}
  /\ no_more_questions = FALSE
  /\ cert = NoCert /\ listmode = FALSE /\ flags = 0 /\ use_ocsp = FALSE
  /\ pc = "idle" /\ rc = OK /\ depth = 0
  /\ subject_cert = NoCert /\ issuer_cert = NoCert
  /\ kh = [pos |-> 0, eph |-> FALSE, fault |-> 0]
  /\ any_expired = FALSE /\ any_revoked = FALSE /\ any_no_crl = FALSE
  /\ any_crl_too_old = FALSE /\ any_no_policy_match = FALSE
  /\ is_qualified = -1 /\ exptime = 0 /\ r_exptime = 0
  /\ is_root = FALSE /\ istrusted_rc = NOTFOUND
  /\ rootca_flags = [relax |-> FALSE] /\ chainlen = 0
  /\ userdata = [cert |-> UD0, subj |-> UD0, iss |-> UD0]
  /\ chain = <<>> /\ verified = {} /\ gate_run = {} /\ isvalid_calls = {}
  /\ isvalid_rc = "-" /\ marktrusted_rc = "-" /\ walk_finished = FALSE
  /\ calls = Calls0
  /\ ncalls = 0 /\ oracle = Oracle0(FALSE) /\ prev = Prev0
  /\ refs = Refs0 /\ keydb_broken \in BOOLEAN /\ regtp = Regtp0

SpecRefs == InitRefs /\ [][Next]_vars

\* C22: when a call of gpgsm_validate_chain has returned, the handle and
\* every reference it acquired have been released exactly once: no count
\* is left above 0, no pointer was released that held no reference, and
\* the caller's reference on the leaf is as it was.
C22_AllReleased == pc = "done" => refs = Refs0

\* keydb_get_cert failed in the retry after a bad signature, tmp_cert was
\* released with what it happened to hold, and the call has returned with a
\* release of a pointer that held no reference (the issuer's certificate
\* released twice, or a pointer that never was a certificate).
C22_IssuerReleasedTwice ==
  /\ pc = "done" /\ keydb_broken
  /\ rc = GPG_ERR_BAD_CERT_CHAIN
  /\ refs.wild
  /\ refs.kh = 0 /\ refs.leaf = 0 /\ refs.subject = 0

(***************************************************************************)
(* The CA gate and the certificate at depth 0.                             *)
(***************************************************************************)
\* The step sets the result of the call to BAD_CA_CERT.
RejectsWithBadCA == rc' = GPG_ERR_BAD_CA_CERT /\ rc # GPG_ERR_BAD_CA_CERT

\* C31 as claimed: the CA gate is never the reason for rejecting the
\* certificate at depth 0: no step that has the leaf as its subject ends
\* the call with BAD_CA_CERT for the leaf itself, self-issued or not.
C31_LeafNeverGated ==
  [][ RejectsWithBadCA => ~(pc = "root" /\ depth = 0) ]_vars

\* C31: a step that ends the call with BAD_CA_CERT is the CA gate of an
\* issuer that is neither marked as a CA nor rescued by the classifier, or
\* the CA gate of a self-issued subject of that kind whose root flags do not
\* carry relax; so a leaf that is not self-issued is never rejected with
\* BAD_CA_CERT for its own sake, and a self-issued leaf is gated as a root.
C31_OnlySelfIssuedLeafGated ==
  [][ RejectsWithBadCA =>
        \/ /\ pc = "gate"
           /\ ~IsCaOrRescued(issuer_cert)
        \/ /\ pc = "root"
           /\ gpgsm_is_root_cert(subject_cert)
           /\ ~rootca_flags.relax
           /\ ~IsCaOrRescued(subject_cert) ]_vars

\* A self-issued leaf that is not marked as a CA has been rejected with
\* BAD_CA_CERT by the CA gate of the root.
C31_SelfIssuedLeafRejected ==
  /\ pc = "leave" /\ depth = 0 /\ rc = GPG_ERR_BAD_CA_CERT
  /\ subject_cert = cert /\ gpgsm_is_root_cert(cert)
  /\ ~Cert(cert).is_ca /\ issuer_cert = NoCert

\* A chain whose leaf is not marked as a CA has been accepted.
C31_PlainLeafAccepted ==
  /\ Accepted /\ Len(chain) > 1
  /\ ~IsCaOrRescued(cert) /\ ~gpgsm_is_root_cert(cert)

(***************************************************************************)
(* get_regtp_ca_info on its own.                                           *)
(***************************************************************************)
\* The certificate object comes with any user data regtp_ca_chainlen, the
\* ephemeral store holds what earlier lookups left there.
InitRegtp ==
  /\ opt \in [ no_chain_validation       : {FALSE},
               no_policy_check           : {FALSE},
               no_crl_check              : {FALSE},
               no_trusted_cert_crl_check : {FALSE},
               ignore_expiration         : {FALSE},
               auto_issuer_key_retrieve  : BOOLEAN,
               policy_file               : {"policies"} ]
  /\ ephem \in EphemeralStores
  /\ keydb_flags = {}
  /\ marktrusted_info = {}
  /\ no_more_questions = FALSE
  /\ cert \in CertNames
  /\ listmode = FALSE /\ flags = 0 /\ use_ocsp = FALSE
  /\ pc = "idle" /\ rc = OK /\ depth = 0
  /\ subject_cert = cert /\ issuer_cert = NoCert
  /\ kh = [pos |-> 0, eph |-> FALSE, fault |-> 0]
  /\ any_expired = FALSE /\ any_revoked = FALSE /\ any_no_crl = FALSE
  /\ any_crl_too_old = FALSE /\ any_no_policy_match = FALSE
  /\ is_qualified = -1 /\ exptime = 0 /\ r_exptime = 0
  /\ is_root = FALSE /\ istrusted_rc = NOTFOUND
  /\ rootca_flags = [relax |-> FALSE] /\ chainlen = 0
  /\ userdata \in [ cert : [ is_qualified : {-1},
                             regtp : {"none", "empty", "10", "11"} ],
                    subj : {UD0}, iss : {UD0} ]
  /\ chain = <<>> /\ verified = {} /\ gate_run = {} /\ isvalid_calls = {}
  /\ isvalid_rc = "-" /\ marktrusted_rc = "-" /\ walk_finished = FALSE
  /\ calls = Calls0
  /\ ncalls = 0 /\ oracle = Oracle0(FALSE) /\ prev = Prev0
  /\ refs = Refs0 /\ keydb_broken = FALSE /\ regtp = Regtp0

\* certchain.c:1399-1410: the walk that starts at c.
regtp_walk_from(c, store) ==
  regtp_walk([array |-> <<c>>, rc |-> OK, ephem |-> store, nfind |-> 0])

\* get_regtp_ca_info (cert, &chainlen) has returned r; w is the walk it
\* made if the object carried no user data.
GetRegtpCaInfoReturns(r, w, walked) ==
  /\ regtp' = [ ret |-> r.ret, chainlen |-> r.chainlen,
                array |-> IF walked THEN w.array ELSE <<>>,
                marks |-> IF walked THEN regtp_marks(w, r) ELSE <<>> ]
  /\ userdata' = [userdata EXCEPT !.cert.regtp = r.ud]
  /\ ephem' = r.ephem
  /\ calls' = Bump(Bump(calls, "find_up", r.nfind), "qualified", r.nqual)
  /\ pc' = "done"

\* certchain.c:1357-1448
GetRegtpCaInfo ==
  /\ pc = "idle"
  /\ GetRegtpCaInfoReturns(
       get_regtp_ca_info(cert, userdata.cert.regtp, ephem),
       regtp_walk_from(cert, ephem),
       userdata.cert.regtp = "none")
  /\ UNCHANGED <<opt, keydb_flags, marktrusted_info, no_more_questions,
                 argvars, rc, depth, subject_cert, issuer_cert, kh, flagvars,
                 is_qualified, exptime, r_exptime, is_root, istrusted_rc,
                 rootca_flags, chainlen, chain, verified, gate_run,
                 isvalid_calls, isvalid_rc, marktrusted_rc, walk_finished,
                 sessionvars, refs, keydb_broken>>

NextRegtp == GetRegtpCaInfo

SpecRegtp == InitRegtp /\ [][NextRegtp]_vars

\* The self-issued certificate that walking up from c reaches within k
\* further levels, NoCert if there is none.
RECURSIVE RootWithin(_, _, _)
RootWithinNext(r, k) ==
  IF r.rc = OK /\ k > 0 THEN RootWithin(r.next, r.ephem, k - 1) ELSE NoCert

RootWithin(c, store, k) ==
  IF gpgsm_walk_cert_chain(c, store).rc = NOTFOUND THEN c
  ELSE RootWithinNext(gpgsm_walk_cert_chain(c, store), k)

QualifiedDe(root) ==
  /\ root # NoCert
  /\ gpgsm_is_in_qualified_list(root) = [rc |-> OK, country |-> "de"]

\* What the claim says of a call that found a listed root: the root is
\* marked (1,1), its child (1,0), the chain length is 1 for the root itself
\* and 0 below it.
RegtpMarked(r, root, isroot) ==
  /\ r.array # <<>> /\ Last(r.array) = root
  /\ r.marks[Len(r.array)] = "11"
  /\ Len(r.array) > 1 => r.marks[Len(r.array) - 1] = "10"
  /\ r.chainlen = IF isroot THEN 1 ELSE 0

\* The call of get_regtp_ca_info on an object without user data.
RegtpCallUncached == pc = "idle" /\ userdata.cert.regtp = "none"

\* C32 as claimed: on a certificate without cached data the call returns
\* true exactly if a self-issued root on the qualified list with country
\* "de" is reached within 3 further levels, and then marks the root and its
\* child and returns the chain length 1 for the root and 0 otherwise.
C32_RootWithinThreeLevels ==
  [][ RegtpCallUncached =>
        /\ regtp'.ret <=> QualifiedDe(RootWithin(cert, ephem, 3))
        /\ regtp'.ret => RegtpMarked(regtp', RootWithin(cert, ephem, 3),
                                     gpgsm_is_root_cert(cert)) ]_vars

\* C32: the same with the root reached within 2 further levels, the
\* certificate under test, a CA and the root filling three of the four
\* slots; in every other case the call returns false with chain length 0.
C32_RootWithinTwoLevels ==
  [][ RegtpCallUncached =>
        /\ regtp'.ret <=> QualifiedDe(RootWithin(cert, ephem, 2))
        /\ regtp'.ret => RegtpMarked(regtp', RootWithin(cert, ephem, 2),
                                     gpgsm_is_root_cert(cert))
        /\ ~regtp'.ret => regtp'.chainlen = 0 ]_vars

\* The call on a certificate two levels below the listed root has returned
\* true with chain length 0 and marked the root and the CA below it.
C32_TwoLevelsBelow ==
  /\ pc = "done" /\ cert = "QL"
  /\ regtp.ret /\ regtp.chainlen = 0
  /\ regtp.array = <<"QL", "QC", "Q">>
  /\ regtp.marks = <<"none", "10", "11">>

\* The call on the listed root itself has returned true with chain length 1.
C32_OnTheRoot ==
  /\ pc = "done" /\ cert = "Q"
  /\ regtp.ret /\ regtp.chainlen = 1
  /\ regtp.marks = <<"11">>

\* The call on a certificate three levels below the listed root has filled
\* the four slots and returned false.
C32_ThreeLevelsBelow ==
  /\ pc = "done" /\ cert = "QLL"
  /\ ~regtp.ret
  /\ regtp.array = <<"QLL", "QL", "QC", "Q">>
  /\ QualifiedDe(Last(regtp.array))

\* The call on a root listed for another country has returned false.
C32_OtherCountry ==
  /\ pc = "done" /\ cert = "RX"
  /\ ~regtp.ret /\ regtp.array = <<"RX">>

(***************************************************************************)
(* The lines of the policy file.                                           *)
(***************************************************************************)
\* Line k of the configured file ends with a newline; the characters it has
\* before the newline or, without one, in all.
LineTerminated(k) ==
  /\ FileLines[k].text # <<>>
  /\ Last(FileLines[k].text) = "\n"

LineChars(k) ==
  IF LineTerminated(k) THEN Len(FileLines[k].text) - 1
  ELSE Len(FileLines[k].text)

\* check_cert_policy has read the configured file for a certificate with
\* certificatePolicies.
PolicyFileRead ==
  /\ PolicyChecked
  /\ Cert(cert).policies # <<>>
  /\ FileLines # <<>>

\* C33: a file whose lines all end with a newline and have 255 characters
\* or fewer never gives LINE_TOO_LONG; a first line of 255 characters is
\* parsed and the lines after it are read; a first line of 256 characters
\* or more gives LINE_TOO_LONG.
C33_LineLimitIs255 ==
  PolicyFileRead =>
    /\ (\A k \in 1 .. Len(FileLines) :
           LineTerminated(k) /\ LineChars(k) <= 255)
         => rc # GPG_ERR_LINE_TOO_LONG
    /\ ( /\ LineTerminated(1) /\ LineChars(1) = 255
         /\ Len(FileLines) > 1 /\ FileLines[2].oid \in CertOids )
         => rc = OK
    /\ (LineTerminated(1) /\ LineChars(1) >= 256)
         => rc = GPG_ERR_LINE_TOO_LONG

\* A first line of exactly 255 characters and a newline has been rejected
\* with LINE_TOO_LONG, the line after it allowing the critical policy of
\* the certificate.
C33_Line255Rejected ==
  /\ PolicyFileRead
  /\ opt.policy_file = "line255" /\ cert = "LP"
  /\ LineTerminated(1) /\ LineChars(1) = 255
  /\ FileLines[2].oid \in CertOids
  /\ rc = GPG_ERR_LINE_TOO_LONG

\* The shortest line that is rejected has 254 characters.
C33_Line254Rejected ==
  /\ PolicyFileRead
  /\ opt.policy_file = "toolong" /\ cert = "LP"
  /\ LineTerminated(1) /\ LineChars(1) = 254
  /\ rc = GPG_ERR_LINE_TOO_LONG

\* The longest line that is accepted has 253 characters.
C33_Line253Accepted ==
  /\ PolicyFileRead
  /\ opt.policy_file = "fits" /\ cert = "LP"
  /\ LineTerminated(1) /\ LineChars(1) = 253
  /\ rc = OK

\* The last line of the file is not empty and has no newline, and no line
\* before it allows a policy of the certificate or fails to be read.
UnterminatedLastLine ==
  /\ FileLines # <<>>
  /\ ~LineTerminated(Len(FileLines))
  /\ LineChars(Len(FileLines)) > 0
  /\ Head(Last(FileLines).text) # NUL
  /\ \A k \in 1 .. (Len(FileLines) - 1) :
        FileLines[k].oid \notin CertOids /\ FileLines[k].bad = OK

\* C34: a file that ends on a non-empty line without a newline, no earlier
\* line having matched, gives INCOMPLETE_LINE; LINE_TOO_LONG is given only
\* if a line of the file is too long for the buffer.
C34_UnterminatedIsIncomplete ==
  PolicyFileRead =>
    /\ UnterminatedLastLine => rc = GPG_ERR_INCOMPLETE_LINE
    /\ rc = GPG_ERR_LINE_TOO_LONG
         => \E k \in 1 .. Len(FileLines) : LineChars(k) >= DIM_line - 2

\* The file ended on the line 1.2.9 without a newline and the call has
\* returned LINE_TOO_LONG.
C34_UnterminatedTooLong ==
  /\ PolicyFileRead
  /\ opt.policy_file = "unterminated" /\ cert = "LP"
  /\ UnterminatedLastLine
  /\ LineChars(Len(FileLines)) = 5
  /\ rc = GPG_ERR_LINE_TOO_LONG

\* INCOMPLETE_LINE is what a line that starts with the byte 0 gives.
C34_IncompleteForNul ==
  /\ PolicyFileRead
  /\ opt.policy_file = "nul" /\ cert = "LP"
  /\ rc = GPG_ERR_INCOMPLETE_LINE

====
